---- MODULE Spec2Model ----
(***************************************************************************)
(* A model of the Fileverse Agent SDK: the Agent's file lifecycle          *)
(* (setupStorage, create, getFile, getFileContent, update, delete), the    *)
(* Pinata storage provider it drives, the portal contract reached through  *)
(* user operations, and the TACo adapter (TacoService, TacoEncryption).    *)
(*                                                                         *)
(* Every async method is cut at its awaits: a call sits in a slot, its pc  *)
(* names the await it is suspended at, and each action runs the code from  *)
(* one await to the next.  The collaborators (storage network, bundler,    *)
(* chain, TACo network) answer nondeterministically: every I/O step has a  *)
(* succeeding and a failing outcome.                                       *)
(***************************************************************************)
EXTENDS Integers, Sequences, FiniteSets, TLC

\* ----------------------------------------------------------------- bounds
\* file operations a behaviour starts
MaxCalls == 2
\* files a behaviour adds to the portal
MaxFiles == 2
\* portals a behaviour mints
MaxMints == 2

\* -------------------------------------------------------------- constants
\* FileType enum of the portal contract.
FileType_PUBLIC == 0
FileType_PRIVATE == 1

\* The ritual of the TacoEncryption configuration.
RitualId == 27

\* Agent.DELETED_HASH
DELETED_HASH == "deleted"

\* ---------------------------------------------------------------- values
\* A JavaScript value or a byte string, as far as the Agent tells them apart:
\*   t = "string"  text v
\*   t = "object"  a plain object (v names it)
\*   t = "null"    null / undefined
\*   t = "bytes"   a TACo message kit: ciphertext of text v under condition cond
\*   t = "json"    JSON text of the metadata object meta
\*   t = "literal" a fixed string that is no CID (the tombstone)
NoMeta ==
  [by |-> "none", encrypted |-> FALSE, cfg |-> {}, ct |-> "none", cv |-> "", cc |-> "none"]

Val(t, v, cond) == [t |-> t, v |-> v, cond |-> cond, meta |-> NoMeta]

Str(s) == Val("string", s, "none")
Obj == Val("object", "{a:1}", "none")
Null == Val("null", "", "none")
NoValue == Val("undefined", "", "none")

\* The contents a caller passes to create/update.
Contents == {Str("Hello World"), Obj, Null}

\* options.accessCondition: absent, null, or a TACo condition.  CondSat is
\* satisfied by the agent's own account (balance >= 0), CondUnsat by nobody
\* (balance >= an impossible value).
CondAbsent == "absent"
CondNull == "null"
CondSat == "balance>=0"
CondUnsat == "balance>=999999999999999999999999"
Conditions == {CondSat, CondUnsat}
CondOptions == {CondAbsent, CondNull} \cup Conditions

\* The conditionContext argument of getFileContent: none, or a context that
\* authenticates the agent's account.
CtxNone == "undefined"
CtxValid == "auth:agent"
Contexts == {CtxNone, CtxValid}

\* JavaScript truthiness of options.accessCondition.
Truthy(cond) == cond \notin {CondAbsent, CondNull}

\* ------------------------------------------------------------ references
\* A storage reference `${protocol}${cid}`; storage is content addressed, so
\* the cid of a blob is the blob.
Concat(p, cid) == [protocol |-> p, cid |-> cid]
NoRef == Concat("", NoValue)

\* PinataStorageProvider.protocol()
protocol == "ipfs://"

\* reference.replace(protocol, "") in unpin/download/downloadBytes
strippedReference(reference) == reference.cid

\* `${protocol}${this.DELETED_HASH}`
DeletedRef(p) == Concat(p, Val("literal", DELETED_HASH, "none"))

\* new File([content], fileName): the bytes the storage provider uploads.  A
\* string or a byte array is stored as it is, any other value through its
\* string conversion.
FileBytes(content) ==
  IF content.t \in {"string", "bytes", "json"} THEN content
  ELSE IF content.t = "object" THEN Str("[object Object]")
  ELSE Str(content.t)

\* ---------------------------------------------------------------- TACo
\* TacoProvider.getMetadataConfig(): the fields written as dataAccessConfig.
getMetadataConfig_leaky == {"providerType", "domain", "ritualId", "viemAccount"}

getMetadataConfig == {"providerType", "domain", "ritualId"}

\* TacoProvider.encrypt: messageKit.toBytes() of the content under the
\* condition.
encrypt_identity(content, accessCondition) == content

encrypt(content, accessCondition) == Val("bytes", content.v, accessCondition)

\* Whether the TACo backend accepts a value as a message to encrypt.
Encryptable(content) == content.t = "string"

\* Whether the requester authenticated by a context satisfies a condition.
Satisfies(ctx, cond) == ctx = CtxValid /\ cond = CondSat

\* new TextDecoder().decode(decryptedBytes)
TextDecode(bytes) == Str(bytes.v)

\* ------------------------------------------------------------- metadata
\* The metadata object create builds, and JSON.stringify of it.
createMetadata_flagless(isEncrypted, dataAccessMetadata) ==
  [by |-> "create", encrypted |-> FALSE, cfg |-> dataAccessMetadata,
   ct |-> "none", cv |-> "", cc |-> "none"]

createMetadata(isEncrypted, dataAccessMetadata) ==
  [by |-> "create", encrypted |-> isEncrypted, cfg |-> dataAccessMetadata,
   ct |-> "none", cv |-> "", cc |-> "none"]

\* The metadata object update builds: it also names the content reference.
updateMetadata_public(isEncrypted, dataAccessMetadata, contentIpfsHash) ==
  [by |-> "update", encrypted |-> FALSE, cfg |-> dataAccessMetadata,
   ct |-> contentIpfsHash.cid.t, cv |-> contentIpfsHash.cid.v,
   cc |-> contentIpfsHash.cid.cond]

updateMetadata(isEncrypted, dataAccessMetadata, contentIpfsHash) ==
  [by |-> "update", encrypted |-> isEncrypted, cfg |-> dataAccessMetadata,
   ct |-> contentIpfsHash.cid.t, cv |-> contentIpfsHash.cid.v,
   cc |-> contentIpfsHash.cid.cond]

JSONstringify(metadata) == [t |-> "json", v |-> "", cond |-> "none", meta |-> metadata]

\* JSON.parse of a downloaded string: only JSON text parses.
IsJSON(data) == data.t = "json"
JSONparse(data) == data.meta

\* ------------------------------------------------------------ validation
\* A file id is a non-negative integer (a bigint), or NoId for null/undefined.
NoId == 0 - 1

\* ValidationService.validateFileId: `!fileId` rejects null, undefined, 0, 0n.
validateFileId(fileId) == fileId /= NoId /\ fileId /= 0

\* ValidationService.validateFileContent
validateFileContent(content) == content.t /= "null"

\* The content check at the head of Agent.create.
validateCreateContent_any(output) == TRUE

validateCreateContent(output) ==
  /\ output.t /= "null"
  /\ ~(output.t = "string" /\ output.v = "")
  /\ output.t \in {"string", "object", "bytes", "json"}

\* ----------------------------------------------------------------- state
VARIABLES
  hasProvider,        \* whether a dataAccessProvider was passed to the constructor
  providerValidated,  \* this._providerValidated
  safeAccount,        \* this.safeAccount is set
  portal,             \* this.portal is set (a record with a portalAddress)
  creds,              \* creds/<namespace>.json exists
  pinned,             \* the blobs the storage provider holds
  files,              \* the portal's files mapping: files[i + 1] is file id i
  pending,            \* user operations the bundler accepted and has not executed
  receipts,           \* user operation hash -> receipt
  mints,              \* mint user operations submitted so far
  calls,              \* call slot -> the call in it
  issued,             \* file operations started so far
  tacoModules,        \* TacoService.js: encryptWithViem && decryptWithViem are loaded
  initialized,        \* TacoService: this.initialized
  tacoService,        \* TacoEncryption: this.tacoService
  initializationPromise, \* TacoEncryption: this._initializationPromise
  tacoCall,           \* the TacoService / TacoEncryption call under way
  tacoOutcomes,       \* the rejections of such calls so far
  tacoProvider,       \* a TacoProvider instance: this.config, this.tacoClient
  network,            \* the condition TacoClient.validateConfig finds the network in
  validations,        \* the validateConfig() calls that have settled, in order
  env,                \* process.env
  logger,             \* a LoggingService instance
  logCalls,           \* the levels of the log methods called on it
  console,            \* the levels of the messages it wrote
  registry,           \* the portals the PortalRegistry has minted for the owner
  storedPortal,       \* the portalAddress in creds/<namespace>.json
  storageProvider,    \* this.storageProvider: the methods the object has
  userConfig,         \* a configuration handed to TacoConfig.process
  processed           \* what TacoConfig.process made of it

vars ==
  <<hasProvider, providerValidated, safeAccount, portal, creds, pinned, files,
    pending, receipts, mints, calls, issued, tacoModules, initialized,
    tacoService, initializationPromise, tacoCall, tacoOutcomes, tacoProvider,
    network, validations, env, logger, logCalls, console, registry,
    storedPortal, storageProvider, userConfig, processed>>

agentVars == <<hasProvider, providerValidated, safeAccount, portal, creds>>
worldVars == <<pinned, files, pending, receipts, mints>>
tacoVars ==
  <<tacoModules, initialized, tacoService, initializationPromise, tacoCall,
    tacoOutcomes>>

providerVars == <<tacoProvider, network, validations>>
loggingVars == <<env, logger, logCalls, console>>
registryVars == <<registry, storedPortal>>
configVars == <<userConfig, processed>>
agentServices == <<registryVars, storageProvider, configVars>>
serviceVars == <<providerVars, loggingVars, agentServices>>

\* ------------------------------------------------------------- logging
\* LOG_LEVELS of LoggingService.js: the severity number of a level name.
LevelNames == {"ERROR", "WARN", "INFO", "DEBUG", "TRACE"}
LOG_LEVELS(name) ==
  CASE name = "ERROR" -> 0
    [] name = "WARN" -> 1
    [] name = "INFO" -> 2
    [] name = "DEBUG" -> 3
    [] name = "TRACE" -> 4

\* LOGGING_CONFIG of LoggingService.js.
DEFAULT_LEVEL == "INFO"
ENVIRONMENT_LEVELS ==
  [e \in {"production", "development", "test"} |->
     CASE e = "production" -> "ERROR"
       [] e = "development" -> "DEBUG"
       [] e = "test" -> "WARN"]

\* String.prototype.toUpperCase / toLowerCase on the strings that occur.
toUpperCase(str) ==
  CASE str \in {"error", "Error"} -> "ERROR"
    [] str \in {"devnet", "Devnet"} -> "DEVNET"
    [] str \in {"testnet", "Testnet"} -> "TESTNET"
    [] str \in {"mainnet", "Mainnet"} -> "MAINNET"
    [] str \in {"lynx", "Lynx"} -> "LYNX"
    [] str \in {"tapir", "Tapir"} -> "TAPIR"
    [] str = "goerli" -> "GOERLI"
    [] str = "warn" -> "WARN"
    [] str = "info" -> "INFO"
    [] str = "debug" -> "DEBUG"
    [] str = "trace" -> "TRACE"
    [] str = "verbose" -> "VERBOSE"
    [] OTHER -> str
toLowerCase(str) ==
  CASE str \in {"PRODUCTION", "Production"} -> "production"
    [] str \in {"DEVNET", "Devnet"} -> "devnet"
    [] str \in {"TESTNET", "Testnet"} -> "testnet"
    [] str \in {"MAINNET", "Mainnet"} -> "mainnet"
    [] str \in {"LYNX", "Lynx"} -> "lynx"
    [] str \in {"TAPIR", "Tapir"} -> "tapir"
    [] str = "TEST" -> "test"
    [] OTHER -> str

\* A variable of process.env that is not set reads as undefined; "" stands
\* for it (an empty value is as falsy as undefined in the tests below).
Unset == ""

\* getLogLevel(component) of LoggingService.js: the override of
\* FILEVERSE_LOG_LEVEL || LOG_LEVEL in upper case, else the level of
\* NODE_ENV, else the default.
getLogLevel(e) ==
  LET envLevel == IF e.FILEVERSE_LOG_LEVEL /= Unset THEN e.FILEVERSE_LOG_LEVEL
                  ELSE e.LOG_LEVEL
      nodeEnv == toLowerCase(e.NODE_ENV) IN
  IF envLevel /= Unset THEN toUpperCase(envLevel)
  ELSE IF nodeEnv \in DOMAIN ENVIRONMENT_LEVELS THEN ENVIRONMENT_LEVELS[nodeEnv]
  ELSE DEFAULT_LEVEL

\* The `level` option of the constructor: absent, a name, or a number.
NoLevel == [t |-> "undefined", name |-> "", number |-> 0]
LevelName(name) == [t |-> "string", name |-> name, number |-> 0]
LevelNumber(number) == [t |-> "number", name |-> "", number |-> number]

\* LoggingService._determineLogLevel(explicitLevel, component): an explicit
\* name goes through `LOG_LEVELS[...] ?? LOG_LEVELS.INFO`, which keeps 0;
\* the configured name goes through `LOG_LEVELS[...] || LOG_LEVELS.INFO`,
\* which replaces every falsy value.
determineLogLevel(explicitLevel, e) ==
  IF explicitLevel.t /= "undefined"
    THEN IF explicitLevel.t = "string"
           THEN IF toUpperCase(explicitLevel.name) \in LevelNames
                  THEN LOG_LEVELS(toUpperCase(explicitLevel.name))
                  ELSE LOG_LEVELS("INFO")
           ELSE explicitLevel.number
    ELSE LET configLevel == getLogLevel(e) IN
         IF configLevel \in LevelNames /\ LOG_LEVELS(configLevel) /= 0
           THEN LOG_LEVELS(configLevel)
           ELSE LOG_LEVELS("INFO")

\* LoggingService._shouldLog(level)
shouldLog(level, logLevel) == LOG_LEVELS(level) <= logLevel

\* new LoggingService(options); `level` keeps the option it was built with.
LoggingService(level, e) == [logLevel |-> determineLogLevel(level, e), level |-> level]

NoEnv == [NODE_ENV |-> Unset, LOG_LEVEL |-> Unset, FILEVERSE_LOG_LEVEL |-> Unset]

\* ------------------------------------------------ data access provider
\* new TacoClient(config) keeps its configuration; new TacoProvider(config)
\* keeps the client.
TacoClient(config) == [config |-> config]
TacoProvider(config) == [tacoClient |-> TacoClient(config)]
TacoConfig == [domain |-> "lynx", ritualId |-> RitualId]

\* What TacoClient.validateConfig can find: the domain and the ritual in
\* order, the network out of reach, the ritual not active.
NetworkReady == "ready"
Networks == {NetworkReady, "network unreachable", "ritual not active"}

\* Portal addresses: the portal a mint operation deploys is named by the
\* hash of the operation; the portal of an earlier run has its own address.
NoAddress == 0
EarlierPortalAddress == 1

\* A TACo configuration before TacoConfig.process saw one, and the result
\* of process before it ran.  An absent domain or rpcUrl is "", an absent
\* ritualId 0: as falsy as undefined in every test the code makes.
NoUserConfig == [domain |-> "", ritualId |-> 0, rpcUrl |-> ""]
NotProcessed ==
  [state |-> "none", domain |-> "", ritualId |-> 0, chainId |-> 0,
   rpcUrl |-> "", errors |-> <<>>]

\* ValidationService.validateStorageProvider: a provider is an object, or
\* nothing, with the methods that are functions on it.
requiredMethods ==
  {"upload", "download", "downloadBytes", "unpin", "protocol", "isConnected"}

Provider(given, methods) == [given |-> given, methods |-> methods]

validateStorageProvider(provider) ==
  /\ provider.given
  /\ \A method \in requiredMethods : method \in provider.methods

\* ValidationService.validateAgentConfig, for a supported chain, an account
\* and an API key: what is left is if (!storageProvider) throw.
validateAgentConfig(provider) == provider.given

\* PinataStorageProvider has all the methods.
PinataStorageProvider == Provider(TRUE, requiredMethods)

\* this.storageProvider.<method> is a function; calling anything else
\* throws a TypeError.
Implements(method) == method \in storageProvider.methods

\* The services as the modules leave them when loaded with nothing set in
\* the environment: the default logger, a provider of the standard
\* configuration.
ServicesInit ==
  /\ tacoProvider = TacoProvider(TacoConfig)
  /\ network = NetworkReady
  /\ validations = <<>>
  /\ env = NoEnv
  /\ logger = LoggingService(NoLevel, NoEnv)
  /\ logCalls = {}
  /\ console = {}
  /\ registry = IF creds THEN {EarlierPortalAddress} ELSE {}
  /\ storedPortal = IF creds THEN EarlierPortalAddress ELSE NoAddress
  /\ storageProvider = PinataStorageProvider
  /\ userConfig = NoUserConfig
  /\ processed = NotProcessed

\* The call slots of the sequential specification: one call at a time.
Slots == {"a"}

NoPrev == [op |-> "none", ok |-> FALSE, fileId |-> NoId, content |-> NoValue, cond |-> CondAbsent]

NoCall ==
  [op |-> "none", pc |-> "idle", n |-> 0,
   \* arguments
   fileId |-> NoId, content |-> NoValue, cond |-> CondAbsent, ctx |-> CtxNone,
   options |-> "object",
   \* the create that resolved in this slot just before this call started
   prev |-> NoPrev,
   \* locals
   metadataIpfsHash |-> NoRef, contentIpfsHash |-> NoRef, metadata |-> NoMeta,
   contentToUpload |-> NoValue, isEncrypted |-> FALSE, dataAccessMetadata |-> {},
   filetype |-> FileType_PUBLIC,
   newContentIpfsHash |-> NoRef, newMetadataIpfsHash |-> NoRef,
   encryptedBytes |-> NoValue, protocol |-> "", hash |-> 0,
   \* what the call has done so far
   uploads |-> 0, userOps |-> 0, reads |-> 0, downloads |-> 0,
   unpinned |-> <<>>, unpinThrew |-> FALSE, encrypts |-> 0, decrypts |-> 0,
   validations |-> 0, denied |-> FALSE,
   \* the settled promise
   fileIdOut |-> NoId, content_out |-> NoValue, decrypted |-> FALSE,
   encrypted |-> FALSE, accessCondition |-> CondAbsent, portalAddress |-> NoAddress,
   err |-> ""]

Done(c) == c.pc \in {"resolved", "rejected"}
Free(c) == c.pc = "idle" \/ Done(c)

Summary(c) ==
  IF c.op = "create" /\ c.pc = "resolved"
    THEN [op |-> c.op, ok |-> TRUE, fileId |-> c.fileIdOut,
          content |-> c.content, cond |-> c.cond]
    ELSE NoPrev

\* ------------------------------------------------------------------ errors
E_CONTENT == "Output content is required and must be a string or object"
E_OPTIONS == "Options must be an object"
E_NOT_SETUP == "Storage not setup yet!"
E_NO_PORTAL == "Portal not found!"
E_PROVIDER == "Data access provider is required for encrypted files"
E_FILE_ID == "Invalid file ID provided"
E_NULL_CONTENT == "File content cannot be null or undefined"
E_NO_EVENT == "AddedFile event not found"
E_DELETE == "File deletion failed."
E_CANNOT_DECRYPT == "Cannot decrypt encrypted file. Data access provider required"
E_DOWNLOAD == "Failed to download file content"
\* what a collaborator throws
E_STORAGE == "storage provider error"
E_BUNDLER == "bundler error"
E_CHAIN == "chain read error"
E_TACO_CONFIG == "TACo configuration invalid"
E_TACO_ENCRYPT == "TACo encryption error"
E_THRESHOLD == "Threshold of responses not met"
E_TACO_OTHER == "TACo decryption error"

\* An error thrown by the TACo adapter: kind is the label the throwing code
\* gives it (the message up to its interpolated part), detail the message of
\* the error it wraps.
Err(kind, detail) == [kind |-> kind, detail |-> detail]
NoErr == Err("", "")

NoTacoCall ==
  [op |-> "none", pc |-> "idle", messageKit |-> NoValue, ctx |-> CtxNone,
   data |-> NoValue, cond |-> CondAbsent, loading |-> FALSE,
   domain |-> "", chain |-> 0, backendChain |-> 0, customViemAccount |-> FALSE,
   args |-> [ritualId |-> 0, domain |-> "", viemClient |-> FALSE, viemAccount |-> FALSE],
   out |-> NoValue, err |-> NoErr, denied |-> FALSE]

\* The agent starts on a fresh namespace, or on one an earlier run of the
\* agent left behind: its credentials file, its portal, and one public file
\* (id 0) that run created.
EarlierContent == Str("README")
EarlierMetadata == JSONstringify(createMetadata(FALSE, {}))
EarlierPinned == {EarlierContent, EarlierMetadata}
EarlierFiles ==
  <<[metadataIpfsHash |-> Concat(protocol, EarlierMetadata),
     contentIpfsHash |-> Concat(protocol, EarlierContent),
     gateIpfsHash |-> "", filetype |-> FileType_PUBLIC, version |-> 0]>>

\* That run may have had a data access provider and have created a second,
\* encrypted file (id 1) as well.
EarlierSecret == encrypt(Str("notes"), CondSat)
EarlierSecretMetadata == JSONstringify(createMetadata(TRUE, getMetadataConfig))
EarlierSecretFile ==
  [metadataIpfsHash |-> Concat(protocol, EarlierSecretMetadata),
   contentIpfsHash |-> Concat(protocol, EarlierSecret),
   gateIpfsHash |-> "", filetype |-> FileType_PRIVATE, version |-> 0]
EarlierPortals ==
  {[pinned |-> EarlierPinned, files |-> EarlierFiles],
   [pinned |-> EarlierPinned \cup {EarlierSecret, EarlierSecretMetadata},
    files |-> Append(EarlierFiles, EarlierSecretFile)]}

Init ==
  /\ hasProvider \in BOOLEAN
  /\ providerValidated = FALSE
  /\ safeAccount = FALSE
  /\ portal = FALSE
  /\ creds \in BOOLEAN
  /\ \E earlier \in EarlierPortals :
       /\ pinned = IF creds THEN earlier.pinned ELSE {}
       /\ files = IF creds THEN earlier.files ELSE <<>>
  /\ pending = <<>>
  /\ receipts = {}
  /\ mints = 0
  /\ calls = [s \in Slots |-> NoCall]
  /\ issued = 0
  /\ tacoModules = FALSE
  /\ initialized = FALSE
  /\ tacoService = "null"
  /\ initializationPromise = "null"
  /\ tacoCall = [t \in Slots |-> NoTacoCall]
  /\ tacoOutcomes = {}
  /\ ServicesInit

\* ---------------------------------------------------------- call helpers
Counted(c, field) == [c EXCEPT ![field] = @ + 1]

\* A rejected promise.  Everything delete does after its prechecks runs in
\* a try block whose catch rethrows "File deletion failed.".
Reject_rollback(c, e) ==
  [c EXCEPT !.pc = "rejected",
            !.err = IF c.op = "delete" /\ c.pc /= "idle" THEN E_DELETE ELSE e,
            !.unpinned = IF c.newContentIpfsHash /= NoRef
                           THEN Append(@, c.newContentIpfsHash) ELSE @]

Reject(c, e) ==
  [c EXCEPT !.pc = "rejected",
            !.err = IF c.op = "delete" /\ c.pc /= "idle" THEN E_DELETE ELSE e]

\* A fresh call in slot s.
Begin(s, op) ==
  [NoCall EXCEPT !.op = op, !.n = issued + 1, !.prev = Summary(calls[s])]

CanBegin(s) == Free(calls[s]) /\ issued < MaxCalls

\* Agent.prechecks: the error it throws, "" when it passes.
prechecks_skipped == ""

prechecks ==
  IF ~safeAccount THEN E_NOT_SETUP
  ELSE IF ~portal THEN E_NO_PORTAL
  ELSE ""

\* `if (options.accessCondition) { if (!this.dataAccessProvider) throw ... }`
providerRequired_never(accessCondition) == FALSE

providerRequired(accessCondition) == Truthy(accessCondition) /\ ~hasProvider

\* The encryption branch of create and update, up to its first await: the
\* call rejects without a provider, validates the provider on first use,
\* and otherwise goes on to encrypt; without a condition it uploads.
encryptionBranch(c) ==
  IF providerRequired(c.cond) THEN Reject(c, E_PROVIDER)
  ELSE IF Truthy(c.cond)
    THEN [c EXCEPT !.pc = IF providerValidated THEN "encrypt" ELSE "validateConfig"]
    ELSE [c EXCEPT !.pc = "uploadContent"]

\* A user operation handed to the bundler.
UserOp_versioned(c, fn, fileId, metadataIpfsHash, contentIpfsHash, filetype) ==
  [hash |-> c.n, fn |-> fn, fileId |-> fileId, metadataIpfsHash |-> metadataIpfsHash,
   contentIpfsHash |-> contentIpfsHash, gateIpfsHash |-> "", filetype |-> filetype,
   version |-> 1]

UserOp(c, fn, fileId, metadataIpfsHash, contentIpfsHash, filetype) ==
  [hash |-> c.n, fn |-> fn, fileId |-> fileId, metadataIpfsHash |-> metadataIpfsHash,
   contentIpfsHash |-> contentIpfsHash, gateIpfsHash |-> "", filetype |-> filetype,
   version |-> 0]

\* A record of the portal's files mapping; ZeroFile is what the mapping
\* returns for an id nobody wrote.
FileRecord(op) ==
  [metadataIpfsHash |-> op.metadataIpfsHash, contentIpfsHash |-> op.contentIpfsHash,
   gateIpfsHash |-> op.gateIpfsHash, filetype |-> op.filetype, version |-> op.version]

ZeroFile ==
  [metadataIpfsHash |-> NoRef, contentIpfsHash |-> NoRef, gateIpfsHash |-> "",
   filetype |-> FileType_PUBLIC, version |-> 0]

Exists(fileId) == fileId >= 0 /\ fileId < Len(files)

PendingAdds == Cardinality({i \in 1..Len(pending) : pending[i].fn = "addFile"})

\* ------------------------------------------------------------ setupStorage
setupStorage(s) ==
  /\ Free(calls[s])
  /\ ~portal
  /\ calls' = [calls EXCEPT ![s] =
       [NoCall EXCEPT !.op = "setupStorage", !.pc = "setupSafe",
                      !.prev = Summary(calls[s])]]
  /\ UNCHANGED <<agentVars, worldVars, issued, tacoVars, serviceVars>>

\* setupStorage called again on an agent whose portal is set: the method
\* does not look at this.portal, it runs setupSafe and loadStorage anew.
setupStorageAgain(s) ==
  /\ Free(calls[s])
  /\ portal
  /\ calls' = [calls EXCEPT ![s] =
       [NoCall EXCEPT !.op = "setupStorage", !.pc = "setupSafe",
                      !.prev = Summary(calls[s])]]
  /\ UNCHANGED <<agentVars, worldVars, issued, tacoVars, serviceVars>>

\* await this.setupSafe(), then loadStorage: an existing credentials file
\* for the namespace becomes this.portal and the call returns.
SetupSafe(s) ==
  LET c == calls[s] IN
  /\ c.pc = "setupSafe"
  /\ \/ /\ safeAccount' = TRUE
        /\ IF creds
             THEN /\ portal' = TRUE
                  /\ calls' = [calls EXCEPT ![s] =
                       [c EXCEPT !.pc = "resolved", !.portalAddress = storedPortal]]
             ELSE /\ portal' = portal
                  /\ calls' = [calls EXCEPT ![s] = [c EXCEPT !.pc = "uploadPortalMetadata"]]
     \/ /\ calls' = [calls EXCEPT ![s] = Reject(c, E_CHAIN)]
        /\ UNCHANGED <<safeAccount, portal>>
  /\ UNCHANGED <<hasProvider, providerValidated, creds, worldVars, issued, tacoVars, serviceVars>>

PortalMetadata == Val("json", "portal", "none")

UploadPortalMetadata(s) ==
  LET c == calls[s] IN
  /\ c.pc = "uploadPortalMetadata"
  /\ \/ /\ Implements("upload")
        /\ pinned' = pinned \cup {PortalMetadata}
        /\ calls' = [calls EXCEPT ![s] =
             [Counted(c, "uploads") EXCEPT !.pc = "mint",
                !.newMetadataIpfsHash = Concat(protocol, PortalMetadata)]]
     \/ /\ calls' = [calls EXCEPT ![s] = Reject(Counted(c, "uploads"), E_STORAGE)]
        /\ UNCHANGED pinned
  /\ UNCHANGED <<agentVars, files, pending, receipts, mints, issued, tacoVars, serviceVars>>

MintPortal(s) ==
  LET c == calls[s]
      h == 0 - (mints + 1) IN
  /\ c.pc = "mint"
  /\ mints < MaxMints
  /\ \/ /\ pending' = Append(pending,
             [UserOp(c, "mint", NoId, c.newMetadataIpfsHash, NoRef, FileType_PUBLIC)
                EXCEPT !.hash = h])
        /\ mints' = mints + 1
        /\ calls' = [calls EXCEPT ![s] =
             [Counted(c, "userOps") EXCEPT !.pc = "mintReceipt", !.hash = h]]
     \/ /\ calls' = [calls EXCEPT ![s] = Reject(Counted(c, "userOps"), E_BUNDLER)]
        /\ UNCHANGED <<pending, mints>>
  /\ UNCHANGED <<agentVars, pinned, files, receipts, issued, tacoVars, serviceVars>>

\* waitForUserOperationReceipt, parseEventLogs "Mint", this.portal = ...,
\* fs.writeFileSync of the credentials file.
WaitForMintReceipt(s) ==
  LET c == calls[s] IN
  /\ c.pc = "mintReceipt"
  /\ \/ \E r \in receipts :
          /\ r.hash = c.hash
          /\ receipts' = receipts \ {r}
          /\ IF r.success
               THEN /\ portal' = TRUE
                    /\ creds' = TRUE
                    /\ storedPortal' = r.hash
                    /\ calls' = [calls EXCEPT ![s] =
                         [c EXCEPT !.pc = "resolved", !.portalAddress = r.hash]]
               ELSE /\ calls' = [calls EXCEPT ![s] = Reject(c, E_NO_EVENT)]
                    /\ UNCHANGED <<portal, creds, storedPortal>>
     \/ /\ calls' = [calls EXCEPT ![s] = Reject(c, E_BUNDLER)]
        /\ receipts' = {r \in receipts : r.hash /= c.hash}
        /\ UNCHANGED <<portal, creds, storedPortal>>
  /\ UNCHANGED <<hasProvider, providerValidated, safeAccount, pinned, files,
                 pending, mints, issued, tacoVars, providerVars, loggingVars,
                 registry, storageProvider, configVars>>

\* ------------------------------------------------------------------ create
\* Agent.create up to its first await: the content check, prechecks, and
\* the encryption branch.
create(s, output, accessCondition) ==
  LET c == [Begin(s, "create") EXCEPT !.content = output, !.cond = accessCondition,
                                      !.contentToUpload = output] IN
  /\ CanBegin(s)
  /\ Len(files) + PendingAdds < MaxFiles
  /\ issued' = issued + 1
  /\ calls' = [calls EXCEPT ![s] =
       IF ~validateCreateContent(output) THEN Reject(c, E_CONTENT)
       ELSE IF prechecks /= "" THEN Reject(c, prechecks)
       ELSE encryptionBranch(c)]
  /\ UNCHANGED <<agentVars, worldVars, tacoVars, serviceVars>>

\* await this.dataAccessProvider.validateConfig(); this._providerValidated = true
ValidateConfig(s) ==
  LET c == calls[s] IN
  /\ c.pc = "validateConfig"
  /\ \/ /\ providerValidated' = TRUE
        /\ calls' = [calls EXCEPT ![s] =
             [Counted(c, "validations") EXCEPT
                !.pc = IF c.op = "getFileContent" THEN "downloadBytes"
                       ELSE "encrypt"]]
     \/ /\ calls' = [calls EXCEPT ![s] = Reject(c, E_TACO_CONFIG)]
        /\ UNCHANGED providerValidated
  /\ UNCHANGED <<hasProvider, safeAccount, portal, creds, worldVars, issued, tacoVars, serviceVars>>

\* await this.dataAccessProvider.encrypt(contentToUpload, accessCondition)
Encrypt(s) ==
  LET c == calls[s] IN
  /\ c.pc = "encrypt"
  /\ \/ /\ Encryptable(c.contentToUpload)
        /\ calls' = [calls EXCEPT ![s] =
             [Counted(c, "encrypts") EXCEPT
                !.pc = "uploadContent",
                !.contentToUpload = encrypt(c.contentToUpload, c.cond),
                !.isEncrypted = TRUE,
                !.dataAccessMetadata = getMetadataConfig,
                !.filetype = FileType_PRIVATE]]
     \/ calls' = [calls EXCEPT ![s] = Reject(Counted(c, "encrypts"), E_TACO_ENCRYPT)]
  /\ UNCHANGED <<agentVars, worldVars, issued, tacoVars, serviceVars>>

\* await this.uploadToStorage(filename, contentToUpload)
UploadContent(s) ==
  LET c == calls[s]
      blob == FileBytes(c.contentToUpload) IN
  /\ c.pc = "uploadContent"
  /\ \/ /\ Implements("upload")
        /\ pinned' = pinned \cup {blob}
        /\ calls' = [calls EXCEPT ![s] =
             [Counted(c, "uploads") EXCEPT !.pc = "uploadMetadata",
                !.newContentIpfsHash = Concat(protocol, blob)]]
     \/ /\ calls' = [calls EXCEPT ![s] = Reject(Counted(c, "uploads"), E_STORAGE)]
        /\ UNCHANGED pinned
  /\ UNCHANGED <<agentVars, files, pending, receipts, mints, issued, tacoVars, serviceVars>>

\* The metadata object of create or update.
metadataOf(c) ==
  IF c.op = "create" THEN createMetadata(c.isEncrypted, c.dataAccessMetadata)
  ELSE updateMetadata(c.isEncrypted, c.dataAccessMetadata, c.newContentIpfsHash)

\* await this.uploadToStorage("metadata.json", JSON.stringify(metadata))
UploadMetadata(s) ==
  LET c == calls[s]
      blob == FileBytes(JSONstringify(metadataOf(c))) IN
  /\ c.pc = "uploadMetadata"
  /\ \/ /\ Implements("upload")
        /\ pinned' = pinned \cup {blob}
        /\ calls' = [calls EXCEPT ![s] =
             [Counted(c, "uploads") EXCEPT !.pc = "sendUserOperation",
                !.newMetadataIpfsHash = Concat(protocol, blob)]]
     \/ /\ calls' = [calls EXCEPT ![s] = Reject(Counted(c, "uploads"), E_STORAGE)]
        /\ UNCHANGED pinned
  /\ UNCHANGED <<agentVars, files, pending, receipts, mints, issued, tacoVars, serviceVars>>

\* await this.smartAccountClient.sendUserOperation(...): addFile for create,
\* editFile for update and delete.  create goes on to wait for the receipt,
\* update and delete go straight on to unpin.
submissionFailed_unpins(c) ==
  IF c.op = "create" THEN Reject(Counted(c, "userOps"), E_BUNDLER)
  ELSE [Counted(c, "userOps") EXCEPT !.pc = "unpinMetadata"]

\* sendUserOperation threw: create and update let the error through, the
\* catch of delete rethrows it as "File deletion failed."; Reject words it.
submissionFailed(c) == Reject(Counted(c, "userOps"), E_BUNDLER)

SendUserOperation(s) ==
  LET c == calls[s]
      op == IF c.op = "create"
              THEN UserOp(c, "addFile", NoId, c.newMetadataIpfsHash,
                          c.newContentIpfsHash, c.filetype)
              ELSE UserOp(c, "editFile", c.fileId, c.newMetadataIpfsHash,
                          c.newContentIpfsHash, c.filetype) IN
  /\ c.pc = "sendUserOperation"
  /\ \/ /\ pending' = Append(pending, op)
        /\ calls' = [calls EXCEPT ![s] =
             [Counted(c, "userOps") EXCEPT
                !.pc = IF c.op = "create" THEN "waitForReceipt" ELSE "unpinMetadata",
                !.hash = op.hash]]
     \/ /\ calls' = [calls EXCEPT ![s] = submissionFailed(c)]
        /\ UNCHANGED pending
  /\ UNCHANGED <<agentVars, pinned, files, receipts, mints, issued, tacoVars, serviceVars>>

\* What create does with the receipt r: parseEventLogs "AddedFile", the
\* throw when the event is not there, and the transaction object it returns.
\* A receipt of an executed addFile holds the event with the new file id.
transactionOf(c, r) ==
  [c EXCEPT !.pc = "resolved", !.fileIdOut = r.fileId,
            !.encrypted = c.isEncrypted,
            !.accessCondition = IF c.isEncrypted THEN c.cond ELSE CondAbsent]

afterReceipt_unchecked(c, r) == transactionOf(c, r)

afterReceipt(c, r) ==
  IF r.success THEN transactionOf(c, r) ELSE Reject(c, E_NO_EVENT)

\* await waitForUserOperationReceipt({hash}), then the rest of create.
WaitForUserOperationReceipt(s) ==
  LET c == calls[s] IN
  /\ c.pc = "waitForReceipt"
  /\ \/ \E r \in receipts :
          /\ r.hash = c.hash
          /\ receipts' = receipts \ {r}
          /\ calls' = [calls EXCEPT ![s] = afterReceipt(c, r)]
     \/ /\ calls' = [calls EXCEPT ![s] = Reject(c, E_BUNDLER)]
        /\ receipts' = {r \in receipts : r.hash /= c.hash}
  /\ UNCHANGED <<agentVars, pinned, files, pending, mints, issued, tacoVars, serviceVars>>

\* ------------------------------------------------------------------- chain
\* Somebody is waiting for the receipt of a user operation.
Awaited(hash) ==
  \E s \in DOMAIN calls :
    calls[s].pc \in {"waitForReceipt", "mintReceipt"} /\ calls[s].hash = hash

Receipt(op, success, fileId) ==
  IF Awaited(op.hash)
    THEN {[hash |-> op.hash, success |-> success, fileId |-> fileId]}
    ELSE {}

\* The bundler executes the oldest pending user operation: addFile appends
\* a record under the next id and emits AddedFile, editFile overwrites the
\* record of an existing id, mint deploys a portal and emits Mint.
Execute ==
  LET op == Head(pending) IN
  /\ pending /= <<>>
  /\ op.fn = "editFile" => Exists(op.fileId)
  /\ pending' = Tail(pending)
  /\ files' =
       IF op.fn = "addFile" THEN Append(files, FileRecord(op))
       ELSE IF op.fn = "editFile" THEN [files EXCEPT ![op.fileId + 1] = FileRecord(op)]
       ELSE files
  /\ receipts' = receipts \cup Receipt(op, TRUE, IF op.fn = "addFile" THEN Len(files) ELSE op.fileId)
  /\ registry' = IF op.fn = "mint" THEN registry \cup {op.hash} ELSE registry
  /\ UNCHANGED <<agentVars, pinned, mints, calls, issued, tacoVars, providerVars,
                 loggingVars, storedPortal, storageProvider, configVars>>

\* The oldest pending user operation reverts, or the bundler drops it.
Revert ==
  LET op == Head(pending) IN
  /\ pending /= <<>>
  /\ pending' = Tail(pending)
  /\ receipts' = receipts \cup Receipt(op, FALSE, NoId)
  /\ UNCHANGED <<agentVars, pinned, files, mints, calls, issued, tacoVars, serviceVars>>

\* ------------------------------------------------- getFile, getFileContent
\* Entry of getFile, and of getFileContent, which validates the id and calls
\* getFile: validateFileId, prechecks, then the contract read.
getFile(s, fileId) ==
  LET c == [Begin(s, "getFile") EXCEPT !.fileId = fileId] IN
  /\ CanBegin(s)
  /\ issued' = issued + 1
  /\ calls' = [calls EXCEPT ![s] =
       IF ~validateFileId(fileId) THEN Reject(c, E_FILE_ID)
       ELSE IF prechecks /= "" THEN Reject(c, prechecks)
       ELSE [c EXCEPT !.pc = "readContract"]]
  /\ UNCHANGED <<agentVars, worldVars, tacoVars, serviceVars>>

getFileContent(s, fileId, conditionContext) ==
  LET c == [Begin(s, "getFileContent") EXCEPT !.fileId = fileId,
                                              !.ctx = conditionContext] IN
  /\ CanBegin(s)
  /\ issued' = issued + 1
  /\ calls' = [calls EXCEPT ![s] =
       IF ~validateFileId(fileId) THEN Reject(c, E_FILE_ID)
       ELSE IF prechecks /= "" THEN Reject(c, prechecks)
       ELSE [c EXCEPT !.pc = "readContract"]]
  /\ UNCHANGED <<agentVars, worldVars, tacoVars, serviceVars>>

\* await this.publicClient.readContract({functionName: "files", args: [fileId]})
ReadContract(s) ==
  LET c == calls[s]
      file == IF Exists(c.fileId) THEN files[c.fileId + 1] ELSE ZeroFile IN
  /\ c.pc = "readContract"
  /\ \/ calls' = [calls EXCEPT ![s] =
          [Counted(c, "reads") EXCEPT !.pc = "downloadMetadata",
             !.metadataIpfsHash = file.metadataIpfsHash,
             !.contentIpfsHash = file.contentIpfsHash]]
     \/ calls' = [calls EXCEPT ![s] = Reject(Counted(c, "reads"), E_CHAIN)]
  /\ UNCHANGED <<agentVars, worldVars, issued, tacoVars, serviceVars>>

\* `if (this.dataAccessProvider)` of getFileContent's encrypted branch.
canDecrypt_always == TRUE

canDecrypt == hasProvider

\* The code that follows `await this.getFile(fileId)` in each caller, up to
\* the caller's next await.  md is the metadata getFile returned.
afterGetFile(c, md) ==
  LET d == [c EXCEPT !.metadata = md, !.encrypted = md.encrypted] IN
  CASE c.op = "getFile" -> [d EXCEPT !.pc = "resolved"]
    [] c.op = "getFileContent" ->
         IF md.encrypted
           THEN IF canDecrypt
                  THEN [d EXCEPT !.pc = IF providerValidated THEN "downloadBytes"
                                        ELSE "validateConfig"]
                  ELSE Reject(d, E_CANNOT_DECRYPT)
           ELSE [d EXCEPT !.pc = "download"]
    [] c.op = "update" -> encryptionBranch(d)
    [] OTHER ->
         [d EXCEPT !.pc = "sendUserOperation",
                   !.newMetadataIpfsHash = DeletedRef(c.protocol),
                   !.newContentIpfsHash = DeletedRef(c.protocol),
                   !.filetype = FileType_PUBLIC]

\* What the gateway serves for a reference: the pinned blob of that cid.
Served(reference) == {b \in pinned : b = strippedReference(reference)}

\* The catch blocks of getFile's metadata download: JSON.parse threw (the
\* inner catch then throws a ReferenceError, which the outer catch catches
\* too), or the download threw; metadata = {} and getFile goes on.
metadataUnavailable_rejects(c) == Reject(c, E_STORAGE)

metadataUnavailable(c) == afterGetFile(c, NoMeta)

\* A gateway answer that is not the pinned blob: the text of an error page.
ErrorPage == Str("<html>504 Gateway Time-out</html>")

\* The try block of getFile: download the metadata and parse it; any
\* failure leaves metadata = {}.
DownloadMetadata(s) ==
  LET c == Counted(calls[s], "downloads") IN
  /\ c.pc = "downloadMetadata"
  /\ \/ /\ Implements("download")
        /\ \E data \in Served(c.metadataIpfsHash) \cup {ErrorPage} :
             calls' = [calls EXCEPT ![s] =
               IF IsJSON(data) THEN afterGetFile(c, JSONparse(data))
               ELSE metadataUnavailable(c)]
     \/ calls' = [calls EXCEPT ![s] = metadataUnavailable(c)]
  /\ UNCHANGED <<agentVars, worldVars, issued, tacoVars, serviceVars>>

\* await this.storageProvider.downloadBytes(fileInfo.contentIpfsHash)
DownloadBytes(s) ==
  LET c == Counted(calls[s], "downloads") IN
  /\ c.pc = "downloadBytes"
  /\ \/ /\ Implements("downloadBytes")
        /\ \E data \in Served(c.contentIpfsHash) :
             calls' = [calls EXCEPT ![s] =
               [c EXCEPT !.pc = "decrypt", !.encryptedBytes = data]]
     \/ calls' = [calls EXCEPT ![s] = Reject(c, E_STORAGE)]
  /\ UNCHANGED <<agentVars, worldVars, issued, tacoVars, serviceVars>>

\* await this.dataAccessProvider.decrypt(encryptedBytes, conditionContext),
\* then TextDecoder.  The TACo network releases the plaintext of a message
\* kit to a requester who satisfies its condition, answers "Threshold of
\* responses not met" to one who does not, and fails otherwise (no
\* authentication in the context, no message kit, network error).  An error
\* of the provider passes through getFileContent unchanged.
Decrypt(s) ==
  LET c == Counted(calls[s], "decrypts")
      kit == c.encryptedBytes IN
  /\ c.pc = "decrypt"
  /\ \/ /\ kit.t = "bytes"
        /\ Satisfies(c.ctx, kit.cond)
        /\ calls' = [calls EXCEPT ![s] =
             [c EXCEPT !.pc = "resolved", !.content_out = TextDecode(kit),
                       !.decrypted = TRUE]]
     \/ /\ kit.t = "bytes"
        /\ ~Satisfies(c.ctx, kit.cond)
        /\ calls' = [calls EXCEPT ![s] = [Reject(c, E_THRESHOLD) EXCEPT !.denied = TRUE]]
     \/ calls' = [calls EXCEPT ![s] = Reject(c, E_TACO_OTHER)]
  /\ UNCHANGED <<agentVars, worldVars, issued, tacoVars, serviceVars>>

\* The public branch of getFileContent: download the content as it is.
Download(s) ==
  LET c == Counted(calls[s], "downloads") IN
  /\ c.pc = "download"
  /\ \/ /\ Implements("download")
        /\ \E data \in Served(c.contentIpfsHash) :
             calls' = [calls EXCEPT ![s] =
               [c EXCEPT !.pc = "resolved", !.content_out = data, !.decrypted = FALSE]]
     \/ calls' = [calls EXCEPT ![s] = Reject(c, E_DOWNLOAD)]
  /\ UNCHANGED <<agentVars, worldVars, issued, tacoVars, serviceVars>>

\* ---------------------------------------------------------- update, delete
\* Agent.update up to its first await: validateFileId, validateFileContent,
\* prechecks, then getFile's contract read.
update(s, fileId, output, accessCondition) ==
  LET c == [Begin(s, "update") EXCEPT !.fileId = fileId, !.content = output,
              !.cond = accessCondition, !.contentToUpload = output] IN
  /\ CanBegin(s)
  /\ issued' = issued + 1
  /\ calls' = [calls EXCEPT ![s] =
       IF ~validateFileId(fileId) THEN Reject(c, E_FILE_ID)
       ELSE IF ~validateFileContent(output) THEN Reject(c, E_NULL_CONTENT)
       ELSE IF prechecks /= "" THEN Reject(c, prechecks)
       ELSE [c EXCEPT !.pc = "readContract"]]
  /\ UNCHANGED <<agentVars, worldVars, tacoVars, serviceVars>>

\* Agent.delete up to its first await: validateFileId, prechecks, then the
\* try block that starts with storageProvider.protocol().
delete(s, fileId) ==
  LET c == [Begin(s, "delete") EXCEPT !.fileId = fileId] IN
  /\ CanBegin(s)
  /\ issued' = issued + 1
  /\ calls' = [calls EXCEPT ![s] =
       IF ~validateFileId(fileId) THEN Reject(c, E_FILE_ID)
       ELSE IF prechecks /= "" THEN Reject(c, prechecks)
       ELSE [c EXCEPT !.pc = "protocol"]]
  /\ UNCHANGED <<agentVars, worldVars, tacoVars, serviceVars>>

\* await this.storageProvider.protocol()
Protocol(s) ==
  LET c == calls[s] IN
  /\ c.pc = "protocol"
  /\ \/ /\ Implements("protocol")
        /\ calls' = [calls EXCEPT ![s] = [c EXCEPT !.pc = "readContract", !.protocol = protocol]]
     \/ calls' = [calls EXCEPT ![s] = Reject(c, E_STORAGE)]
  /\ UNCHANGED <<agentVars, worldVars, issued, tacoVars, serviceVars>>

\* PinataStorageProvider.unpin can succeed only on a reference whose cid it
\* finds among the pinned files.
Unpinnable(reference) == strippedReference(reference) \in pinned

\* The unpin try block of update and delete, after a throwing unpin: the
\* catch logs the error and the call returns its transaction.
afterUnpinThrew_rejects(c) == Reject(c, E_STORAGE)

afterUnpinThrew(c) == [c EXCEPT !.pc = "resolved", !.fileIdOut = c.fileId]

\* await this.storageProvider.unpin(metadataIpfsHash): the first statement
\* of the try block.
UnpinMetadata(s) ==
  LET c == [calls[s] EXCEPT !.unpinned = Append(@, calls[s].metadataIpfsHash)] IN
  /\ c.pc = "unpinMetadata"
  /\ \/ /\ Implements("unpin")
        /\ Unpinnable(c.metadataIpfsHash)
        /\ pinned' = pinned \ {strippedReference(c.metadataIpfsHash)}
        /\ calls' = [calls EXCEPT ![s] = [c EXCEPT !.pc = "unpinContent"]]
     \/ /\ calls' = [calls EXCEPT ![s] = afterUnpinThrew([c EXCEPT !.unpinThrew = TRUE])]
        /\ UNCHANGED pinned
  /\ UNCHANGED <<agentVars, files, pending, receipts, mints, issued, tacoVars, serviceVars>>

\* await this.storageProvider.unpin(contentIpfsHash): the second statement
\* of the try block, then the transaction object.
UnpinContent(s) ==
  LET c == [calls[s] EXCEPT !.unpinned = Append(@, calls[s].contentIpfsHash)] IN
  /\ c.pc = "unpinContent"
  /\ \/ /\ Implements("unpin")
        /\ Unpinnable(c.contentIpfsHash)
        /\ pinned' = pinned \ {strippedReference(c.contentIpfsHash)}
        /\ calls' = [calls EXCEPT ![s] = [c EXCEPT !.pc = "resolved", !.fileIdOut = c.fileId]]
     \/ /\ calls' = [calls EXCEPT ![s] = afterUnpinThrew([c EXCEPT !.unpinThrew = TRUE])]
        /\ UNCHANGED pinned
  /\ UNCHANGED <<agentVars, files, pending, receipts, mints, issued, tacoVars, serviceVars>>

\* ------------------------------------------------------------ specification
\* The arguments the model passes to update.
UpdateContents == {Str("Hello World"), Null}
UpdateConditions == {CondAbsent, CondSat}
FileIds == {NoId} \cup 0..MaxFiles

Next ==
  \/ \E s \in Slots : setupStorage(s)
  \/ \E s \in Slots : SetupSafe(s)
  \/ \E s \in Slots : UploadPortalMetadata(s)
  \/ \E s \in Slots : MintPortal(s)
  \/ \E s \in Slots : WaitForMintReceipt(s)
  \/ \E s \in Slots, output \in Contents, accessCondition \in CondOptions :
       create(s, output, accessCondition)
  \/ \E s \in Slots, fileId \in FileIds : getFile(s, fileId)
  \/ \E s \in Slots, fileId \in FileIds, conditionContext \in Contexts :
       getFileContent(s, fileId, conditionContext)
  \/ \E s \in Slots, fileId \in FileIds, output \in UpdateContents,
        accessCondition \in UpdateConditions :
       update(s, fileId, output, accessCondition)
  \/ \E s \in Slots, fileId \in FileIds : delete(s, fileId)
  \/ \E s \in Slots : ValidateConfig(s)
  \/ \E s \in Slots : Encrypt(s)
  \/ \E s \in Slots : UploadContent(s)
  \/ \E s \in Slots : UploadMetadata(s)
  \/ \E s \in Slots : SendUserOperation(s)
  \/ \E s \in Slots : WaitForUserOperationReceipt(s)
  \/ \E s \in Slots : ReadContract(s)
  \/ \E s \in Slots : DownloadMetadata(s)
  \/ \E s \in Slots : DownloadBytes(s)
  \/ \E s \in Slots : Decrypt(s)
  \/ \E s \in Slots : Download(s)
  \/ \E s \in Slots : Protocol(s)
  \/ \E s \in Slots : UnpinMetadata(s)
  \/ \E s \in Slots : UnpinContent(s)
  \/ Execute
  \/ Revert

Spec == Init /\ [][Next]_vars

\* ------------------------------------------------------ malformed inputs
\* Agent.create with any second argument: typeofOptions is what typeof
\* gives for it, "object" for the empty options {}.  Up to its first await:
\* the content check, the options check, prechecks, the encryption branch.
createWithOptions(s, output, typeofOptions) ==
  LET c == [Begin(s, "create") EXCEPT !.content = output, !.options = typeofOptions,
                                      !.contentToUpload = output] IN
  /\ CanBegin(s)
  /\ Len(files) + PendingAdds < MaxFiles
  /\ issued' = issued + 1
  /\ calls' = [calls EXCEPT ![s] =
       IF ~validateCreateContent(output) THEN Reject(c, E_CONTENT)
       ELSE IF typeofOptions /= "object" THEN Reject(c, E_OPTIONS)
       ELSE IF prechecks /= "" THEN Reject(c, prechecks)
       ELSE encryptionBranch(c)]
  /\ UNCHANGED <<agentVars, worldVars, tacoVars, serviceVars>>

\* What a careless caller passes: an empty string, a number, a string for
\* the options.
Num == Val("number", "42", "none")
CreateInputs == {Str(""), Num, NoValue, Str("Hello World")}
OptionTypes == {"object", "string"}

NextOptions ==
  \/ Next
  \/ \E s \in Slots, output \in CreateInputs, typeofOptions \in OptionTypes :
       createWithOptions(s, output, typeofOptions)

SpecOptions == Init /\ [][NextOptions]_vars

\* ------------------------------------------------------- concurrent calls
\* The same agent with two calls in flight at a time: the caller does not
\* await one call before making the next.  The agent has been set up on the
\* portal of an earlier run and has a data access provider.
ConcurrentSlots == {"a", "b"}

InitConcurrent ==
  /\ hasProvider = TRUE
  /\ providerValidated = FALSE
  /\ safeAccount = TRUE
  /\ portal = TRUE
  /\ creds = TRUE
  /\ \E earlier \in EarlierPortals :
       /\ pinned = earlier.pinned
       /\ files = earlier.files
  /\ pending = <<>>
  /\ receipts = {}
  /\ mints = 0
  /\ calls = [s \in ConcurrentSlots |-> NoCall]
  /\ issued = 0
  /\ tacoModules = FALSE
  /\ initialized = FALSE
  /\ tacoService = "null"
  /\ initializationPromise = "null"
  /\ tacoCall = [t \in Slots |-> NoTacoCall]
  /\ tacoOutcomes = {}
  /\ ServicesInit

NextConcurrent ==
  \/ \E s \in ConcurrentSlots, output \in Contents, accessCondition \in CondOptions :
       create(s, output, accessCondition)
  \/ \E s \in ConcurrentSlots, fileId \in FileIds : getFile(s, fileId)
  \/ \E s \in ConcurrentSlots, fileId \in FileIds, conditionContext \in Contexts :
       getFileContent(s, fileId, conditionContext)
  \/ \E s \in ConcurrentSlots, fileId \in FileIds, output \in UpdateContents,
        accessCondition \in UpdateConditions :
       update(s, fileId, output, accessCondition)
  \/ \E s \in ConcurrentSlots, fileId \in FileIds : delete(s, fileId)
  \/ \E s \in ConcurrentSlots : ValidateConfig(s)
  \/ \E s \in ConcurrentSlots : Encrypt(s)
  \/ \E s \in ConcurrentSlots : UploadContent(s)
  \/ \E s \in ConcurrentSlots : UploadMetadata(s)
  \/ \E s \in ConcurrentSlots : SendUserOperation(s)
  \/ \E s \in ConcurrentSlots : WaitForUserOperationReceipt(s)
  \/ \E s \in ConcurrentSlots : ReadContract(s)
  \/ \E s \in ConcurrentSlots : DownloadMetadata(s)
  \/ \E s \in ConcurrentSlots : DownloadBytes(s)
  \/ \E s \in ConcurrentSlots : Decrypt(s)
  \/ \E s \in ConcurrentSlots : Download(s)
  \/ \E s \in ConcurrentSlots : Protocol(s)
  \/ \E s \in ConcurrentSlots : UnpinMetadata(s)
  \/ \E s \in ConcurrentSlots : UnpinContent(s)
  \/ Execute
  \/ Revert

SpecConcurrent == InitConcurrent /\ [][NextConcurrent]_vars

\* ======================================================= the TACo adapter
\* TacoService (services/TacoService.js) and TacoEncryption
\* (agent/TacoEncryption.js).  tacoCall holds the calls in flight, one per
\* slot: one slot when the caller awaits each call, two when it does not.
mainVars == <<agentVars, worldVars, calls, issued>>

\* What the callers hand to decrypt: message kits of encrypt, bytes that are
\* no message kit, nothing.
MessageKits ==
  {encrypt(Str("Secret"), CondSat), encrypt(Str("Secret"), CondUnsat),
   Str("not a message kit"), Null}

K_DECRYPT == "TACo decryption failed"
K_ENCRYPT == "TACo encryption failed"
K_INIT == "TACo initialization failed"
K_MODULES == "Failed to initialize TACo"
K_NOT_INITIALIZED == "TACo service not initialized. Cannot decrypt content."
K_TYPE_ERROR == "TypeError"
K_VIEM_CLIENT == "Viem client is required for TACo operations"
K_VIEM_ACCOUNT == "Viem account is required for TACo operations"
K_RITUAL == "Valid ritual ID is required for TACo initialization"
K_DOMAIN == "TACo domain is required"
K_IMPORT == "import failed"

TacoFree(t) == tacoCall[t].pc \in {"idle", "resolved", "rejected"}

TacoBegin(op) == [NoTacoCall EXCEPT !.op = op]

\* The catch block of TacoService.decrypt: whatever was thrown is rethrown
\* as `TACo decryption failed: ${error.message}`.
decryptCatch(error) == Err(K_DECRYPT, error.kind)

\* The catch block of TacoService.encrypt, likewise.
encryptCatch(error) == Err(K_ENCRYPT, error.kind)

\* The catch block of TacoService.createConditionContext.
K_CONTEXT == "Failed to create condition context"
contextCatch(error) == Err(K_CONTEXT, error.kind)

\* What the caller of _ensureInitialized makes of an error thrown under it:
\* encrypt and decrypt call it inside their try blocks, initialize() lets
\* the error through.
methodCatch(op, error) ==
  CASE op = "decrypt" -> decryptCatch(error)
    [] op = "encrypt" -> encryptCatch(error)
    [] op = "decryptWithAutoContext" -> contextCatch(error)
    [] OTHER -> error

\* A TACo call settles with an error: the promise rejects and the rejection
\* is recorded.
TacoReject(t, c, error, denied) ==
  /\ tacoCall' = [tacoCall EXCEPT ![t] =
       [c EXCEPT !.pc = "rejected", !.err = error, !.denied = denied]]
  /\ tacoOutcomes' = tacoOutcomes \cup {[op |-> c.op, kind |-> error.kind, denied |-> denied]}

\* A method of TacoService up to its first await: _ensureInitialized calls
\* the static initializeTaco, which returns at once when the modules are
\* loaded and starts loading them otherwise.
EnsureInitialized(c) == [c EXCEPT !.pc = "initializeTaco", !.loading = ~tacoModules]

\* TacoService.initialize()
TacoService_initialize(t) ==
  /\ TacoFree(t)
  /\ tacoCall' = [tacoCall EXCEPT ![t] = EnsureInitialized(TacoBegin("initialize"))]
  /\ UNCHANGED <<mainVars, serviceVars, tacoModules, initialized, tacoService,
                 initializationPromise, tacoOutcomes>>

\* TacoService.encrypt(data, accessCondition)
TacoService_encrypt(t, data, accessCondition) ==
  /\ TacoFree(t)
  /\ tacoCall' = [tacoCall EXCEPT ![t] =
       EnsureInitialized([TacoBegin("encrypt") EXCEPT !.data = data,
                            !.cond = accessCondition, !.domain = "lynx"])]
  /\ UNCHANGED <<mainVars, serviceVars, tacoModules, initialized, tacoService,
                 initializationPromise, tacoOutcomes>>

\* TacoService.decrypt(messageKit, conditionContext)
TacoService_decrypt(t, messageKit, conditionContext) ==
  /\ TacoFree(t)
  /\ tacoCall' = [tacoCall EXCEPT ![t] =
       EnsureInitialized([TacoBegin("decrypt") EXCEPT !.messageKit = messageKit,
                            !.ctx = conditionContext])]
  /\ UNCHANGED <<mainVars, serviceVars, tacoModules, initialized, tacoService,
                 initializationPromise, tacoOutcomes>>

\* TacoService.getChainId(): the chain of the instance's domain, Polygon
\* Amoy for a domain the mapping does not know.
CHAIN_AMOY == 80002
CHAIN_POLYGON == 137

getChainId_amoy(domain) == CHAIN_AMOY

getChainId(domain) ==
  CASE domain \in {"lynx", "DEVNET", "tapir", "TESTNET"} -> CHAIN_AMOY
    [] domain = "MAINNET" -> CHAIN_POLYGON
    [] OTHER -> CHAIN_AMOY

\* `if (!accessCondition.chain) accessCondition.chain = this.getChainId()`:
\* a condition without a chain has chain NoChain.
NoChain == 0
defaultChain(chain, domain) == IF chain = NoChain THEN getChainId(domain) ELSE chain

\* The statement of a method that follows `await this._ensureInitialized()`.
\* encrypt sets the chain of the condition it is about to hand to
\* encryptWithViem; without a condition it throws, in EncryptWithViem below.
backend(c) ==
  CASE c.op = "decrypt" -> [c EXCEPT !.pc = "decryptWithViem"]
    [] c.op = "encrypt" ->
         [c EXCEPT !.pc = "encryptWithViem",
                   !.backendChain = IF Truthy(c.cond)
                                      THEN defaultChain(c.chain, c.domain)
                                      ELSE NoChain]
    [] c.op = "decryptWithAutoContext" -> [c EXCEPT !.pc = "createConditionContext"]
    [] OTHER -> [c EXCEPT !.pc = "resolved"]

\* `if (!this.initialized) { await initialize(); ... }` of
\* _ensureInitialized, reached when initializeTaco has returned.
afterInitializeTaco_unguarded(c) == backend(c)

afterInitializeTaco(c) ==
  IF initialized THEN backend(c) ELSE [c EXCEPT !.pc = "initialize"]

\* await TacoService.initializeTaco() inside _ensureInitialized: loaded
\* modules are kept; loading can fail, and then _ensureInitialized clears
\* this.initialized and throws.
InitializeTaco(t) ==
  LET c == tacoCall[t] IN
  /\ c.pc = "initializeTaco"
  /\ \/ /\ tacoModules' = TRUE
        /\ tacoCall' = [tacoCall EXCEPT ![t] = afterInitializeTaco(c)]
        /\ UNCHANGED <<initialized, tacoOutcomes>>
     \/ /\ c.loading
        /\ initialized' = FALSE
        /\ TacoReject(t, c, methodCatch(c.op, Err(K_INIT, K_MODULES)), FALSE)
        /\ UNCHANGED tacoModules
  /\ UNCHANGED <<mainVars, serviceVars, tacoService, initializationPromise>>

\* await initialize() inside _ensureInitialized: the domains.
InitializeDomains(t) ==
  LET c == tacoCall[t] IN
  /\ c.pc = "initialize"
  /\ \/ /\ initialized' = TRUE
        /\ tacoCall' = [tacoCall EXCEPT ![t] = backend(c)]
        /\ UNCHANGED tacoOutcomes
     \/ /\ initialized' = FALSE
        /\ TacoReject(t, c, methodCatch(c.op, Err(K_INIT, K_IMPORT)), FALSE)
  /\ UNCHANGED <<mainVars, serviceVars, tacoModules, tacoService, initializationPromise>>

\* await encryptWithViem(viemClient, domain, message, condition, ritualId,
\* viemAccount): a message kit of the data under the condition.  Without a
\* condition `accessCondition.chain` throws before the call.
EncryptWithViem(t) ==
  LET c == tacoCall[t] IN
  /\ c.pc = "encryptWithViem"
  /\ \/ /\ Truthy(c.cond)
        /\ tacoCall' = [tacoCall EXCEPT ![t] =
             [c EXCEPT !.pc = "resolved", !.out = encrypt(c.data, c.cond)]]
        /\ UNCHANGED tacoOutcomes
     \/ /\ Truthy(c.cond)
        /\ TacoReject(t, c, encryptCatch(Err(E_TACO_ENCRYPT, "")), FALSE)
     \/ /\ ~Truthy(c.cond)
        /\ TacoReject(t, c, encryptCatch(Err(K_TYPE_ERROR, "")), FALSE)
  /\ UNCHANGED <<mainVars, serviceVars, tacoModules, initialized, tacoService,
                 initializationPromise>>

\* await decryptWithViem(viemClient, domain, messageKit, conditionContext):
\* the network releases the plaintext to a requester who satisfies the
\* condition of the message kit, reports "Threshold of responses not met"
\* for one who does not, and fails otherwise.
DecryptWithViem(t) ==
  LET c == tacoCall[t]
      kit == c.messageKit IN
  /\ c.pc = "decryptWithViem"
  /\ \/ /\ kit.t = "bytes"
        /\ Satisfies(c.ctx, kit.cond)
        /\ tacoCall' = [tacoCall EXCEPT ![t] =
             [c EXCEPT !.pc = "resolved", !.out = TextDecode(kit)]]
        /\ UNCHANGED tacoOutcomes
     \/ /\ kit.t = "bytes"
        /\ ~Satisfies(c.ctx, kit.cond)
        /\ TacoReject(t, c, decryptCatch(Err(E_THRESHOLD, "")), TRUE)
     \/ TacoReject(t, c, decryptCatch(Err(E_TACO_OTHER, "")), FALSE)
  /\ UNCHANGED <<mainVars, serviceVars, tacoModules, initialized, tacoService,
                 initializationPromise>>

\* The domains TacoService knows: the keys of getChainId's chainMapping and
\* the list of the static validateConfig.
SupportedDomains == {"lynx", "DEVNET", "tapir", "TESTNET", "MAINNET"}
NoDomain == ""

\* TacoService.decryptWithAutoContext(messageKit, customViemAccount), which
\* the agent of agent/index.js calls from getFileContent: it awaits
\* createConditionContext, which starts with _ensureInitialized.
TacoService_decryptWithAutoContext(t, messageKit, customViemAccount) ==
  /\ TacoFree(t)
  /\ tacoCall' = [tacoCall EXCEPT ![t] =
       EnsureInitialized([TacoBegin("decryptWithAutoContext") EXCEPT
                            !.messageKit = messageKit,
                            !.customViemAccount = customViemAccount])]
  /\ UNCHANGED <<mainVars, serviceVars, tacoModules, initialized, tacoService,
                 initializationPromise, tacoOutcomes>>

\* The identifiers TacoService.js declares at module level.  The body of
\* createConditionContext reads `tacoModules`.
ModuleBindings ==
  {"encryptWithViem", "decryptWithViem", "initialize", "conditions", "domains",
   "tacoAuthModules"}
E_NOT_DEFINED == "tacoModules is not defined"

\* The rest of createConditionContext: `const { conditions } = tacoModules`
\* throws a ReferenceError when the module declares no such identifier;
\* otherwise the context of the message kit gets an authentication provider
\* for the custom account or the configured one, and decrypt is called.
CreateConditionContext(t) ==
  LET c == tacoCall[t] IN
  /\ c.pc = "createConditionContext"
  /\ IF "tacoModules" \in ModuleBindings
       THEN /\ tacoCall' = [tacoCall EXCEPT ![t] =
                 [c EXCEPT !.pc = "decryptWithViem", !.ctx = CtxValid]]
            /\ UNCHANGED tacoOutcomes
       ELSE TacoReject(t, c, contextCatch(Err(E_NOT_DEFINED, "")), FALSE)
  /\ UNCHANGED <<mainVars, serviceVars, tacoModules, initialized, tacoService,
                 initializationPromise>>

\* The TacoService constructor: the error it throws for its arguments, NoErr
\* if it constructs.  An absent client or account is FALSE, an absent
\* domain is NoDomain, ritualId 0 is absent.
TacoService_constructor(ritualId, domain, viemClient, viemAccount) ==
  IF ritualId <= 0 THEN Err(K_RITUAL, "")
  ELSE IF domain = NoDomain THEN Err(K_DOMAIN, "")
  ELSE IF ~viemClient THEN Err(K_VIEM_CLIENT, "")
  ELSE IF ~viemAccount THEN Err(K_VIEM_ACCOUNT, "")
  ELSE NoErr

\* new TacoService({ritualId, domain, viemClient, viemAccount}) by any
\* caller: it throws or returns an instance, synchronously.  The instance
\* whose initialization the model follows is another one.
NewTacoService(t, ritualId, domain, viemClient, viemAccount) ==
  LET c == [TacoBegin("constructor") EXCEPT
              !.args = [ritualId |-> ritualId, domain |-> domain,
                        viemClient |-> viemClient, viemAccount |-> viemAccount]]
      thrown == TacoService_constructor(ritualId, domain, viemClient, viemAccount) IN
  /\ TacoFree(t)
  /\ IF thrown = NoErr
       THEN /\ tacoCall' = [tacoCall EXCEPT ![t] =
                 [c EXCEPT !.pc = "resolved", !.out = Str("TacoService")]]
            /\ UNCHANGED tacoOutcomes
       ELSE TacoReject(t, c, thrown, FALSE)
  /\ UNCHANGED <<mainVars, serviceVars, tacoModules, initialized, tacoService,
                 initializationPromise>>

\* The arguments the model passes to the constructor: no ritual id, a
\* negative one, the open rituals of the test and development networks; no
\* domain, the supported ones, and one that is not supported.
TestnetRitualId == 6
RitualIds == {0 - 1, 0, TestnetRitualId, RitualId}
Domains == {NoDomain, "goerli"} \cup SupportedDomains

NextTacoConstructor ==
  \E t \in DOMAIN tacoCall, ritualId \in RitualIds, domain \in Domains,
     viemClient \in BOOLEAN, viemAccount \in BOOLEAN :
    NewTacoService(t, ritualId, domain, viemClient, viemAccount)

SpecTacoConstructor == Init /\ [][NextTacoConstructor]_vars

\* `if (!this._initializationPromise)` of TacoEncryption.initializeTaco.
memoized_never(promise) == FALSE

memoized(promise) == promise /= "null"

\* TacoEncryption.initializeTaco: a call that finds no kept promise starts
\* _initializeTacoService and keeps its promise; every call awaits the kept
\* promise.
TacoEncryption_initializeTaco(t) ==
  /\ TacoFree(t)
  /\ IF ~memoized(initializationPromise)
       THEN /\ initializationPromise' = "pending"
            /\ tacoCall' = [tacoCall EXCEPT ![t] =
                 [TacoBegin("initializeTaco") EXCEPT !.pc = "createTacoProvider"]]
       ELSE /\ tacoCall' = [tacoCall EXCEPT ![t] =
                 [TacoBegin("initializeTaco") EXCEPT
                    !.pc = IF initializationPromise = "pending"
                             THEN "awaitInitialization" ELSE "resolved"]]
            /\ UNCHANGED initializationPromise
  /\ UNCHANGED <<mainVars, serviceVars, tacoModules, initialized, tacoService, tacoOutcomes>>

\* The kept promise settles: the call that runs _initializeTacoService and
\* the calls that await its promise all resume with the outcome.
SettleInitialization(t, pc, error) ==
  /\ tacoCall' =
       [u \in DOMAIN tacoCall |->
          IF u = t \/ tacoCall[u].pc = "awaitInitialization"
            THEN [tacoCall[u] EXCEPT !.pc = pc, !.err = error]
            ELSE tacoCall[u]]
  /\ tacoOutcomes' =
       IF pc = "rejected"
         THEN tacoOutcomes \cup {[op |-> tacoCall[t].op, kind |-> error.kind, denied |-> FALSE]}
         ELSE tacoOutcomes

\* _initializeTacoService: await _createTacoProvider and _createTacoSigner,
\* then new TacoService({ritualId, domain, provider, signer}): the
\* constructor receives neither viemClient nor viemAccount.  The catch
\* clears the kept promise and rethrows.
CreateTacoProvider(t) ==
  LET c == tacoCall[t]
      thrown == TacoService_constructor(RitualId, "lynx", FALSE, FALSE) IN
  /\ c.pc = "createTacoProvider"
  /\ \/ IF thrown = NoErr
          THEN /\ tacoService' = "constructed"
               /\ initializationPromise' = "fulfilled"
               /\ SettleInitialization(t, "resolved", NoErr)
          ELSE /\ initializationPromise' = "null"
               /\ SettleInitialization(t, "rejected", thrown)
               /\ UNCHANGED tacoService
     \/ /\ initializationPromise' = "null"
        /\ SettleInitialization(t, "rejected", Err(K_IMPORT, ""))
        /\ UNCHANGED tacoService
  /\ UNCHANGED <<mainVars, serviceVars, tacoModules, initialized>>

\* TacoEncryption.decryptContent: without a service it throws; with one it
\* calls this.tacoService.isInitialized, which TacoService does not define,
\* before it enters the try block whose catch tells an access denial from
\* other failures.
TacoEncryption_decryptContent(t, encryptedBytes) ==
  LET c == [TacoBegin("decryptContent") EXCEPT !.messageKit = encryptedBytes] IN
  /\ TacoFree(t)
  /\ IF tacoService = "null"
       THEN TacoReject(t, c, Err(K_NOT_INITIALIZED, ""), FALSE)
       ELSE TacoReject(t, c, Err(K_TYPE_ERROR, "isInitialized is not a function"), FALSE)
  /\ UNCHANGED <<mainVars, serviceVars, tacoModules, initialized, tacoService,
                 initializationPromise>>

\* What the model passes to TacoService.encrypt.
EncryptConditions == {CondSat, CondAbsent}

NextTaco ==
  \/ \E t \in DOMAIN tacoCall : TacoService_initialize(t)
  \/ \E t \in DOMAIN tacoCall, accessCondition \in EncryptConditions :
       TacoService_encrypt(t, Str("Secret"), accessCondition)
  \/ \E t \in DOMAIN tacoCall, messageKit \in MessageKits, conditionContext \in Contexts :
       TacoService_decrypt(t, messageKit, conditionContext)
  \/ \E t \in DOMAIN tacoCall : InitializeTaco(t)
  \/ \E t \in DOMAIN tacoCall : InitializeDomains(t)
  \/ \E t \in DOMAIN tacoCall : EncryptWithViem(t)
  \/ \E t \in DOMAIN tacoCall : DecryptWithViem(t)
  \/ \E t \in DOMAIN tacoCall : TacoEncryption_initializeTaco(t)
  \/ \E t \in DOMAIN tacoCall : CreateTacoProvider(t)
  \/ \E t \in DOMAIN tacoCall, encryptedBytes \in MessageKits :
       TacoEncryption_decryptContent(t, encryptedBytes)

SpecTaco == Init /\ [][NextTaco]_vars

\* The decryption path of the agent of agent/index.js.
NextTacoAutoContext ==
  \/ \E t \in DOMAIN tacoCall, messageKit \in MessageKits, customViemAccount \in BOOLEAN :
       TacoService_decryptWithAutoContext(t, messageKit, customViemAccount)
  \/ \E t \in DOMAIN tacoCall : InitializeTaco(t)
  \/ \E t \in DOMAIN tacoCall : InitializeDomains(t)
  \/ \E t \in DOMAIN tacoCall : CreateConditionContext(t)

SpecTacoAutoContext == Init /\ [][NextTacoAutoContext]_vars

\* ------------------------------------------- TacoProvider.validateConfig
\* validateConfig() calls observed per run.
MaxValidations == 3

\* What validateConfig leaves of the provider: it assigns no field.
afterValidateConfig_reset(provider) == [provider EXCEPT !.tacoClient = TacoClient([domain |-> "", ritualId |-> 0])]

afterValidateConfig(provider) == provider

\* TacoProvider.validateConfig() up to `await this.tacoClient.validateConfig()`.
TacoProvider_validateConfig(t) ==
  /\ TacoFree(t)
  /\ Len(validations) < MaxValidations
  /\ tacoCall' = [tacoCall EXCEPT ![t] =
       [TacoBegin("validateConfig") EXCEPT !.pc = "tacoClient.validateConfig"]]
  /\ UNCHANGED <<mainVars, serviceVars, tacoModules, initialized, tacoService,
                 initializationPromise, tacoOutcomes>>

\* The error TacoClient.validateConfig throws for the condition it finds.
clientError(found) == Err("TACo configuration validation failed", found)

\* The client's answer arrives: validateConfig returns true, or rethrows
\* the client's error as it is.
ValidateClientConfig(t) ==
  LET c == tacoCall[t]
      ok == network = NetworkReady
      error == IF ok THEN NoErr ELSE clientError(network) IN
  /\ c.pc = "tacoClient.validateConfig"
  /\ IF ok
       THEN /\ tacoCall' = [tacoCall EXCEPT ![t] = [c EXCEPT !.pc = "resolved"]]
            /\ UNCHANGED tacoOutcomes
       ELSE TacoReject(t, c, error, FALSE)
  /\ tacoProvider' = afterValidateConfig(tacoProvider)
  /\ validations' = Append(validations, [network |-> network, ok |-> ok, err |-> error])
  /\ UNCHANGED <<mainVars, loggingVars, agentServices, network,
                 tacoModules, initialized,
                 tacoService, initializationPromise>>

\* The network comes up, goes down, the ritual expires.
NetworkChanges(found) ==
  /\ network /= found
  /\ network' = found
  /\ UNCHANGED <<mainVars, loggingVars, agentServices, tacoVars,
                 tacoProvider, validations>>

NextProvider ==
  \/ \E t \in DOMAIN tacoCall : TacoProvider_validateConfig(t)
  \/ \E t \in DOMAIN tacoCall : ValidateClientConfig(t)
  \/ \E found \in Networks : NetworkChanges(found)

SpecProvider == Init /\ [][NextProvider]_vars

\* ------------------------------------------------------- LoggingService
\* The environments a process is started in, and the loggers built in it.
NodeEnvs == {Unset, "production", "development", "test", "staging", "Production"}
Envs ==
  [NODE_ENV : NodeEnvs, LOG_LEVEL : {Unset, "debug"}, FILEVERSE_LOG_LEVEL : {Unset, "error"}]
LevelOptions ==
  {NoLevel, LevelName("error"), LevelName("WARN"), LevelName("verbose"),
   LevelNumber(4), LevelNumber(0)}

\* The module is loaded in some environment and builds the default logger:
\* `const defaultLogger = new LoggingService()`.
InitLogging ==
  /\ hasProvider = FALSE
  /\ providerValidated = FALSE
  /\ safeAccount = FALSE
  /\ portal = FALSE
  /\ creds = FALSE
  /\ pinned = {}
  /\ files = <<>>
  /\ pending = <<>>
  /\ receipts = {}
  /\ mints = 0
  /\ calls = [s \in Slots |-> NoCall]
  /\ issued = 0
  /\ tacoModules = FALSE
  /\ initialized = FALSE
  /\ tacoService = "null"
  /\ initializationPromise = "null"
  /\ tacoCall = [t \in Slots |-> NoTacoCall]
  /\ tacoOutcomes = {}
  /\ tacoProvider = TacoProvider(TacoConfig)
  /\ network = NetworkReady
  /\ validations = <<>>
  /\ env \in Envs
  /\ logger = LoggingService(NoLevel, env)
  /\ logCalls = {}
  /\ console = {}
  /\ registry = {}
  /\ storedPortal = NoAddress
  /\ storageProvider = PinataStorageProvider
  /\ userConfig = NoUserConfig
  /\ processed = NotProcessed

\* new LoggingService({level})
NewLoggingService(level) ==
  /\ logger' = LoggingService(level, env)
  /\ logCalls' = {}
  /\ console' = {}
  /\ UNCHANGED <<mainVars, tacoVars, providerVars, agentServices, env>>

\* logger.component(name): a logger of the level getLogLevel names.
Component ==
  /\ logger' = LoggingService(LevelName(getLogLevel(env)), env)
  /\ logCalls' = {}
  /\ console' = {}
  /\ UNCHANGED <<mainVars, tacoVars, providerVars, agentServices, env>>

\* error(), warn(), info(), debug(), trace(): _log writes the message when
\* _shouldLog allows its level.
Log(level) ==
  /\ logCalls' = logCalls \cup {level}
  /\ console' = IF shouldLog(level, logger.logLevel) THEN console \cup {level} ELSE console
  /\ UNCHANGED <<mainVars, tacoVars, providerVars, agentServices, env, logger>>

NextLogging ==
  \/ \E level \in LevelOptions : NewLoggingService(level)
  \/ Component
  \/ \E level \in LevelNames : Log(level)

SpecLogging == InitLogging /\ [][NextLogging]_vars

\* TacoService.encrypt on an instance of any domain the constructor
\* accepts, with a condition that names a chain or does not.
Chains == {NoChain, 11155111, CHAIN_POLYGON, CHAIN_AMOY}

TacoService_encryptOn(t, domain, chain) ==
  /\ TacoFree(t)
  /\ TacoService_constructor(RitualId, domain, TRUE, TRUE) = NoErr
  /\ tacoCall' = [tacoCall EXCEPT ![t] =
       EnsureInitialized([TacoBegin("encrypt") EXCEPT !.data = Str("Secret"),
                            !.cond = CondSat, !.domain = domain, !.chain = chain])]
  /\ UNCHANGED <<mainVars, serviceVars, tacoModules, initialized, tacoService,
                 initializationPromise, tacoOutcomes>>

NextTacoEncrypt ==
  \/ \E t \in DOMAIN tacoCall, domain \in Domains, chain \in Chains :
       TacoService_encryptOn(t, domain, chain)
  \/ \E t \in DOMAIN tacoCall : InitializeTaco(t)
  \/ \E t \in DOMAIN tacoCall : InitializeDomains(t)
  \/ \E t \in DOMAIN tacoCall : EncryptWithViem(t)

SpecTacoEncrypt == Init /\ [][NextTacoEncrypt]_vars

\* Two TacoService calls in flight on one instance.
InitTacoConcurrent ==
  /\ hasProvider = TRUE
  /\ providerValidated = FALSE
  /\ safeAccount = FALSE
  /\ portal = FALSE
  /\ creds = FALSE
  /\ pinned = {}
  /\ files = <<>>
  /\ pending = <<>>
  /\ receipts = {}
  /\ mints = 0
  /\ calls = [s \in Slots |-> NoCall]
  /\ issued = 0
  /\ tacoModules = FALSE
  /\ initialized = FALSE
  /\ tacoService = "null"
  /\ initializationPromise = "null"
  /\ tacoCall = [t \in ConcurrentSlots |-> NoTacoCall]
  /\ tacoOutcomes = {}
  /\ ServicesInit

NextTacoConcurrent ==
  \/ \E t \in DOMAIN tacoCall : TacoService_initialize(t)
  \/ \E t \in DOMAIN tacoCall : TacoService_encrypt(t, Str("Secret"), CondSat)
  \/ \E t \in DOMAIN tacoCall, messageKit \in MessageKits :
       TacoService_decrypt(t, messageKit, CtxValid)
  \/ \E t \in DOMAIN tacoCall : InitializeTaco(t)
  \/ \E t \in DOMAIN tacoCall : InitializeDomains(t)
  \/ \E t \in DOMAIN tacoCall : EncryptWithViem(t)
  \/ \E t \in DOMAIN tacoCall : DecryptWithViem(t)

SpecTacoConcurrent == InitTacoConcurrent /\ [][NextTacoConcurrent]_vars

\* Two TacoEncryption calls in flight on one instance.
NextTacoEncryptionConcurrent ==
  \/ \E t \in DOMAIN tacoCall : TacoEncryption_initializeTaco(t)
  \/ \E t \in DOMAIN tacoCall : CreateTacoProvider(t)
  \/ \E t \in DOMAIN tacoCall, encryptedBytes \in MessageKits :
       TacoEncryption_decryptContent(t, encryptedBytes)

SpecTacoEncryptionConcurrent == InitTacoConcurrent /\ [][NextTacoEncryptionConcurrent]_vars

\* ================================================================== claims
\* The call right after a create that resolved, on the file it created.
OnCreated(c) == c.prev.ok /\ c.fileId = c.prev.fileId

\* C1: a create with an access condition on an Agent without a data access
\* provider rejects in its first step, with the provider-required error
\* when the content is valid and the storage is set up, having made no
\* upload, no user operation, no chain read, no download and no provider
\* call, and leaving storage and chain as they were.
C1_CreateWithoutProvider ==
  [][\A s \in Slots :
       (/\ calls'[s] /= calls[s]
        /\ calls'[s].op = "create"
        /\ Truthy(calls'[s].cond)
        /\ ~hasProvider)
       => /\ calls'[s].pc = "rejected"
          /\ calls'[s].uploads = 0 /\ calls'[s].userOps = 0
          /\ calls'[s].reads = 0 /\ calls'[s].downloads = 0
          /\ calls'[s].encrypts = 0
          /\ UNCHANGED worldVars
          /\ (validateCreateContent(calls'[s].content) /\ prechecks = ""
                => calls'[s].err = E_PROVIDER)]_vars

C1_Witness ==
  \E s \in Slots :
    /\ calls[s].op = "create" /\ Truthy(calls[s].cond) /\ ~hasProvider
    /\ calls[s].pc = "rejected" /\ calls[s].err = E_PROVIDER

\* C2: create(content, {accessCondition: null}) rejects and mutates no
\* state: it never resolves, uploads nothing and submits no user operation.
C2_NullConditionRejected ==
  \A s \in Slots :
    calls[s].op = "create" /\ calls[s].cond = CondNull
      => /\ calls[s].pc /= "resolved"
         /\ calls[s].uploads = 0
         /\ calls[s].userOps = 0

C4_UnpinBestEffort ==
  \A s \in Slots :
    calls[s].op \in {"update", "delete"} /\ calls[s].unpinThrew
      => /\ calls[s].pc = "resolved"
         /\ calls[s].err = ""
         /\ calls[s].hash = calls[s].n
         /\ calls[s].fileIdOut = calls[s].fileId
         /\ portal

C4_Witness ==
  \E s \in Slots :
    /\ calls[s].op \in {"update", "delete"}
    /\ calls[s].unpinThrew
    /\ calls[s].pc = "resolved"

\* C5: every update or delete that resolves has called unpin on both refs
\* of the previous version, the metadata ref and the content ref read from
\* chain, each whatever the outcome of the other.
C5_BothUnpinsAttempted ==
  \A s \in Slots :
    calls[s].op \in {"update", "delete"} /\ calls[s].pc = "resolved"
      => calls[s].unpinned = <<calls[s].metadataIpfsHash, calls[s].contentIpfsHash>>

\* C6: once delete(fileId) has resolved on an existing file, the record of
\* fileId is on chain with both refs equal to protocol() followed by
\* "deleted" and filetype PUBLIC.
C6_DeleteTombstones ==
  \A s \in Slots :
    calls[s].op = "delete" /\ calls[s].pc = "resolved" /\ Exists(calls[s].fileId)
      => /\ files[calls[s].fileId + 1].metadataIpfsHash = DeletedRef(protocol)
         /\ files[calls[s].fileId + 1].contentIpfsHash = DeletedRef(protocol)
         /\ files[calls[s].fileId + 1].filetype = FileType_PUBLIC

\* C7: an update with an access condition on an Agent without a data access
\* provider does no I/O at all: no chain read, no download, no upload, no
\* user operation.
C7_UpdateWithoutProviderNoIO ==
  \A s \in Slots :
    calls[s].op = "update" /\ Truthy(calls[s].cond) /\ ~hasProvider
      => /\ calls[s].reads = 0 /\ calls[s].downloads = 0
         /\ calls[s].uploads = 0 /\ calls[s].userOps = 0

\* What a collaborator's failure makes a read of a file reject with.
ReadFailures == {E_CHAIN, E_DOWNLOAD, E_STORAGE}

\* C8: a create without options resolves with a file id, a hash and
\* encrypted false, and the getFileContent of that id issued next returns
\* the created content with decrypted false and without calling decrypt; it
\* rejects only if the chain read or the download fails.
C8_PublicRoundTrip ==
  \A s \in Slots :
    /\ (calls[s].op = "create" /\ calls[s].pc = "resolved"
        /\ calls[s].cond = CondAbsent)
         => /\ calls[s].fileIdOut /= NoId
            /\ calls[s].hash /= 0
            /\ ~calls[s].encrypted
    /\ (calls[s].op = "getFileContent" /\ calls[s].prev.ok
        /\ calls[s].prev.cond = CondAbsent
        /\ calls[s].fileId = calls[s].prev.fileId)
         => /\ calls[s].decrypts = 0
            /\ calls[s].pc = "resolved"
                 => calls[s].content_out = calls[s].prev.content /\ ~calls[s].decrypted
            /\ calls[s].pc = "rejected" => calls[s].err \in ReadFailures

\* C9: a create with a satisfiable condition A stores encrypt(C, A), never
\* C, as the content blob, and the getFileContent of that id issued next
\* with a context that satisfies A returns C with decrypted true; it rejects
\* only if a collaborator fails.
C9_EncryptedRoundTrip ==
  \A s \in Slots :
    /\ (calls[s].op = "create" /\ calls[s].pc = "resolved"
        /\ calls[s].cond = CondSat)
         => /\ calls[s].newContentIpfsHash = Concat(protocol, encrypt(calls[s].content, CondSat))
            /\ strippedReference(calls[s].newContentIpfsHash) /= calls[s].content
    /\ (calls[s].op = "getFileContent" /\ calls[s].prev.ok
        /\ calls[s].prev.cond = CondSat
        /\ calls[s].fileId = calls[s].prev.fileId
        /\ calls[s].ctx = CtxValid)
         => /\ calls[s].pc = "resolved"
                 => calls[s].content_out = calls[s].prev.content /\ calls[s].decrypted
            /\ calls[s].pc = "rejected"
                 => calls[s].err \in ReadFailures \cup {E_TACO_CONFIG, E_TACO_OTHER}

\* C10: when the TACo network reports that the threshold of responses was
\* not met, decrypt rejects with an error kind that no other failure of the
\* same operation carries, and a call resolves with the plaintext only for
\* a requester who satisfies the condition.
C10_AccessDeniedKind ==
  /\ \A t \in DOMAIN tacoCall :
       /\ tacoCall[t].pc = "resolved" /\ tacoCall[t].op = "decrypt"
            => Satisfies(tacoCall[t].ctx, tacoCall[t].messageKit.cond)
       /\ tacoCall[t].denied => tacoCall[t].pc = "rejected"
  /\ \A a, b \in tacoOutcomes :
       a.op = b.op /\ a.denied /\ ~b.denied => a.kind /= b.kind

\* C11: what a successful update leaves is decided by that call alone.  With
\* no access condition the blob it uploaded is the plaintext, the metadata it
\* uploaded says encrypted: false and the editFile it submitted carries
\* FileType.PUBLIC; with a condition the blob is the ciphertext of the
\* content under the condition, the metadata says encrypted: true and the
\* editFile carries FileType.PRIVATE.  The previous version of the file does
\* not matter, and the record the portal holds once that editFile has
\* executed is the one the call submitted.
C11_Expected(c) ==
  [blob |-> IF Truthy(c.cond) THEN Val("bytes", c.content.v, c.cond)
            ELSE FileBytes(c.content),
   encrypted |-> Truthy(c.cond),
   filetype |-> IF Truthy(c.cond) THEN FileType_PRIVATE ELSE FileType_PUBLIC]

C12_CreatePathByCondition ==
  \A s \in DOMAIN calls :
    LET c == calls[s]
        file == files[c.fileIdOut + 1] IN
    (c.op = "create" /\ c.pc = "resolved" /\ c.cond /= CondNull) =>
      /\ Exists(c.fileIdOut)
      /\ file.contentIpfsHash = c.newContentIpfsHash
      /\ file.metadataIpfsHash = c.newMetadataIpfsHash
      /\ c.uploads = 2
      /\ IF c.cond \in Conditions
           THEN /\ c.encrypts = 1
                /\ c.newContentIpfsHash.cid = Val("bytes", c.content.v, c.cond)
                /\ c.newMetadataIpfsHash.cid.meta.encrypted
                /\ file.filetype = FileType_PRIVATE
                /\ c.encrypted
                /\ c.accessCondition = c.cond
           ELSE /\ c.encrypts = 0
                /\ c.contentToUpload = c.content
                /\ c.newContentIpfsHash.cid = FileBytes(c.content)
                /\ ~c.newMetadataIpfsHash.cid.meta.encrypted
                /\ file.filetype = FileType_PUBLIC
                /\ ~c.encrypted
                /\ c.accessCondition = CondAbsent

\* A create with a condition has resolved: one encrypt call, a PRIVATE
\* record pointing at the ciphertext.
C12_Witness ==
  \E s \in DOMAIN calls :
    LET c == calls[s] IN
    /\ c.op = "create" /\ c.pc = "resolved"
    /\ c.cond = CondSat
    /\ c.encrypts = 1
    /\ Exists(c.fileIdOut)
    /\ files[c.fileIdOut + 1].filetype = FileType_PRIVATE
    /\ files[c.fileIdOut + 1].contentIpfsHash.cid.t = "bytes"

C14_FileOps == {"create", "getFile", "getFileContent", "update", "delete"}

C14_ArgumentsValid(c) ==
  /\ c.op = "create" => validateCreateContent(c.content)
  /\ c.op /= "create" => validateFileId(c.fileId)
  /\ c.op = "update" => validateFileContent(c.content)

C14_NotSetUpRejects ==
  [][\A s \in DOMAIN calls :
       LET c == calls'[s] IN
       (/\ issued' = issued + 1
        /\ c.n = issued'
        /\ c.op \in C14_FileOps
        /\ ~(safeAccount /\ portal)) =>
         /\ c.pc = "rejected"
         /\ c.uploads = 0 /\ c.downloads = 0 /\ c.unpinned = <<>>
         /\ c.reads = 0 /\ c.userOps = 0
         /\ c.encrypts = 0 /\ c.decrypts = 0
         /\ UNCHANGED <<agentVars, worldVars>>
         /\ C14_ArgumentsValid(c) =>
              c.err = IF safeAccount THEN E_NO_PORTAL ELSE E_NOT_SETUP]_vars

\* setupStorage failed after the smart account was set up, and a later
\* delete with a valid id was refused for the missing portal.
C14_Witness ==
  \E s \in DOMAIN calls :
    LET c == calls[s] IN
    /\ safeAccount /\ ~portal
    /\ c.op = "delete" /\ c.fileId = 1
    /\ c.pc = "rejected" /\ c.err = E_NO_PORTAL

\* C15: create resolves only on a receipt that holds the AddedFile event of
\* its addFile, and returns the file id of that event, under which the
\* portal holds the record; on a receipt without the event it rejects and
\* returns no file id.
C15_CreateNeedsAddedFile ==
  [][\A s \in DOMAIN calls :
       LET c == calls[s]
           d == calls'[s] IN
       (c.op = "create" /\ c.pc = "waitForReceipt" /\ d /= c) =>
         /\ d.pc = "resolved" =>
              /\ \E r \in receipts :
                   r.hash = c.hash /\ r.success /\ d.fileIdOut = r.fileId
              /\ d.fileIdOut /= NoId
              /\ Exists(d.fileIdOut)
              /\ files[d.fileIdOut + 1].contentIpfsHash = c.newContentIpfsHash
         /\ (\E r \in receipts : r.hash = c.hash /\ ~r.success) =>
              /\ d.pc = "rejected"
              /\ d.err \in {E_NO_EVENT, E_BUNDLER}
              /\ d.fileIdOut = NoId
         /\ d.pc = "rejected" => d.fileIdOut = NoId]_vars

\* A create rejected because its receipt held no AddedFile event.
C15_Witness ==
  \E s \in DOMAIN calls :
    LET c == calls[s] IN
    /\ c.op = "create" /\ c.pc = "rejected"
    /\ c.err = E_NO_EVENT
    /\ c.userOps = 1
    /\ c.fileIdOut = NoId

\* C16: getFile does not reject over the metadata blob.  Once the contract
\* read has answered, getFile resolves with the two references it read,
\* and when the metadata could not be downloaded or parsed it resolves with
\* metadata {} and encrypted false.  It rejects only for an invalid id,
\* failed prechecks or a failed contract read, before any download.
C16_GetFileToleratesMetadata ==
  [][\A s \in DOMAIN calls :
       LET c == calls[s]
           d == calls'[s]
           file == IF Exists(c.fileId) THEN files[c.fileId + 1] ELSE ZeroFile IN
       d.op = "getFile" =>
         /\ (c.pc = "readContract" /\ d.pc = "downloadMetadata") =>
              /\ d.metadataIpfsHash = file.metadataIpfsHash
              /\ d.contentIpfsHash = file.contentIpfsHash
         /\ (c.pc = "downloadMetadata" /\ d /= c) =>
              /\ d.pc = "resolved"
              /\ d.metadataIpfsHash = c.metadataIpfsHash
              /\ d.contentIpfsHash = c.contentIpfsHash
              /\ d.encrypted = d.metadata.encrypted
              /\ strippedReference(c.metadataIpfsHash) \notin pinned =>
                   (d.metadata = NoMeta /\ ~d.encrypted)
         /\ d.pc = "rejected" =>
              /\ d.err \in {E_FILE_ID, E_NOT_SETUP, E_NO_PORTAL, E_CHAIN}
              /\ d.downloads = 0]_vars

\* getFile of an encrypted file resolved although the gateway did not
\* deliver the metadata: metadata {} and encrypted false.
C16_Witness ==
  \E s \in DOMAIN calls :
    LET c == calls[s] IN
    /\ c.op = "getFile" /\ c.pc = "resolved"
    /\ c.downloads = 1
    /\ Exists(c.fileId)
    /\ files[c.fileId + 1].filetype = FileType_PRIVATE
    /\ c.metadataIpfsHash = files[c.fileId + 1].metadataIpfsHash
    /\ c.metadata = NoMeta /\ ~c.encrypted

\* C17: validateConfig() of the data access provider completes successfully
\* at most once per agent, however create, update and getFileContent
\* interleave; and a call whose validateConfig failed has rejected with
\* that error before any encrypt, upload or user operation, leaving the
\* provider unvalidated unless another call validated it.
C17_Successes ==
  LET RECURSIVE Sum(_)
      Sum(S) == IF S = {} THEN 0
                ELSE LET s == CHOOSE x \in S : TRUE IN
                     calls[s].validations + Sum(S \ {s}) IN
  Sum(DOMAIN calls)

C17_ValidatedAtMostOnce ==
  /\ C17_Successes <= 1
  /\ \A s \in DOMAIN calls :
       LET c == calls[s] IN
       (c.pc = "rejected" /\ c.err = E_TACO_CONFIG) =>
         /\ c.validations = 0
         /\ c.encrypts = 0 /\ c.uploads = 0 /\ c.userOps = 0
         /\ c.decrypts = 0

\* C18: on one TacoService instance the domain handshake initialize() is
\* never in flight twice and is not in flight once the instance is
\* initialized, however initialize, encrypt and decrypt calls interleave;
\* and the backend modules are never being loaded by two calls at once.
C18_SingleInitialization ==
  /\ \A t, u \in DOMAIN tacoCall :
       t /= u =>
         /\ ~(tacoCall[t].pc = "initialize" /\ tacoCall[u].pc = "initialize")
         /\ ~(/\ tacoCall[t].pc = "initializeTaco" /\ tacoCall[t].loading
              /\ tacoCall[u].pc = "initializeTaco" /\ tacoCall[u].loading)
  /\ \A t \in DOMAIN tacoCall : tacoCall[t].pc = "initialize" => ~initialized

\* C19: a TacoService starts not initialized.  A call whose initialization
\* failed leaves it not initialized, and the next call tries the handshake
\* again; once initialized it stays initialized whatever is called later;
\* and encryptWithViem and decryptWithViem are reached only on an
\* initialized instance.
C19_ServiceOps == {"initialize", "encrypt", "decrypt"}

C19_TacoStateMachine ==
  /\ ~initialized
  /\ [][/\ initialized => initialized'
        /\ \A t \in DOMAIN tacoCall :
             LET c == tacoCall[t]
                 d == tacoCall'[t] IN
             /\ d.pc \in {"encryptWithViem", "decryptWithViem"} => initialized'
             /\ (d.op = "initialize" /\ d.pc = "resolved") => initialized'
             /\ (/\ c.op \in C19_ServiceOps
                 /\ c.pc \in {"initializeTaco", "initialize"}
                 /\ d.pc = "rejected") => ~initialized'
             /\ (/\ c.op \in C19_ServiceOps
                 /\ c.pc = "initializeTaco"
                 /\ d.pc \notin {"initializeTaco", "rejected"}
                 /\ ~initialized) => d.pc = "initialize"]_vars

\* An initialize() failed earlier, and the instance is initialized now and
\* about to encrypt.
C19_Witness ==
  /\ initialized
  /\ [op |-> "initialize", kind |-> K_INIT, denied |-> FALSE] \in tacoOutcomes
  /\ \E t \in DOMAIN tacoCall : tacoCall[t].pc = "encryptWithViem"

\* C20: the TacoService constructor throws, and returns no instance,
\* whenever the ritual id is missing or not positive, the domain is missing
\* or not a supported one, the chain client is missing, or the signing
\* account is missing.
C20_ConstructorRejects ==
  \A t \in DOMAIN tacoCall :
    LET c == tacoCall[t] IN
    (/\ c.op = "constructor"
     /\ \/ c.args.ritualId <= 0
        \/ c.args.domain \notin SupportedDomains
        \/ ~c.args.viemClient
        \/ ~c.args.viemAccount) =>
      /\ c.pc = "rejected"
      /\ c.out = NoValue

\* C21: the condition TacoService.encrypt hands to encryptWithViem carries
\* the chain the caller gave it, and when the caller gave none, the chain
\* of the instance's domain: 80002 for lynx, DEVNET, tapir and TESTNET, 137
\* for MAINNET.
C21_ChainDefaulting ==
  \A t \in DOMAIN tacoCall :
    LET c == tacoCall[t] IN
    (c.op = "encrypt" /\ Truthy(c.cond) /\ (c.pc = "encryptWithViem" \/ c.out /= NoValue)) =>
      /\ c.chain /= NoChain => c.backendChain = c.chain
      /\ (c.chain = NoChain /\ c.domain \in {"lynx", "DEVNET", "tapir", "TESTNET"})
           => c.backendChain = 80002
      /\ (c.chain = NoChain /\ c.domain = "MAINNET") => c.backendChain = 137

\* An encrypt on a MAINNET instance with a condition that named no chain
\* has resolved; the backend got chain 137.
C21_Witness ==
  \E t \in DOMAIN tacoCall :
    LET c == tacoCall[t] IN
    /\ c.op = "encrypt" /\ c.pc = "resolved"
    /\ c.domain = "MAINNET" /\ c.chain = NoChain
    /\ c.backendChain = 137

\* C22: every metadata blob create or update wrote has a dataAccessConfig
\* exactly when it says encrypted: true, and the dataAccessConfig holds the
\* provider type, the domain and the ritual id and nothing else.
C22_Written ==
  {b \in pinned : b.t = "json" /\ b.meta.by \in {"create", "update"}}
    \cup {calls[s].newMetadataIpfsHash.cid : s \in
            {x \in DOMAIN calls : /\ calls[x].op \in {"create", "update"}
                                  /\ calls[x].newMetadataIpfsHash /= NoRef}}

C22_MinimalDataAccessConfig ==
  \A b \in C22_Written :
    /\ b.meta.encrypted <=> b.meta.cfg /= {}
    /\ b.meta.cfg \subseteq {"providerType", "domain", "ritualId"}
    /\ b.meta.encrypted => b.meta.cfg = {"providerType", "domain", "ritualId"}

\* An update wrote the metadata of an encrypted version, and it is pinned.
C22_Witness ==
  \E b \in pinned :
    /\ b.t = "json" /\ b.meta.by = "update"
    /\ b.meta.encrypted
    /\ b.meta.cfg = {"providerType", "domain", "ritualId"}

\* C23: a create or update that fails after it uploaded a blob rejects and
\* rolls nothing back: it issues no unpin, the blobs it uploaded are still
\* pinned, and when it was the submission of the user operation that
\* failed, the records of the portal and the bundler's queue are as before.
C23_NoRollback ==
  [][\A s \in DOMAIN calls :
       LET c == calls[s]
           d == calls'[s] IN
       (d.op \in {"create", "update"} /\ d.pc = "rejected" /\ d.uploads > 0) =>
         /\ d.unpinned = <<>>
         /\ pinned \subseteq pinned'
         /\ d.newContentIpfsHash /= NoRef =>
              strippedReference(d.newContentIpfsHash) \in pinned'
         /\ d.newMetadataIpfsHash /= NoRef =>
              strippedReference(d.newMetadataIpfsHash) \in pinned'
         /\ (c.pc = "sendUserOperation" /\ d /= c) =>
              (files' = files /\ pending' = pending)]_vars

\* A create uploaded both blobs, its addFile reverted, and it rejected:
\* both blobs are pinned and no record refers to them.
C23_Witness ==
  \E s \in DOMAIN calls :
    LET c == calls[s] IN
    /\ c.op = "create" /\ c.pc = "rejected"
    /\ c.uploads = 2 /\ c.userOps = 1
    /\ strippedReference(c.newContentIpfsHash) \in pinned
    /\ strippedReference(c.newMetadataIpfsHash) \in pinned
    /\ \A i \in 1..Len(files) : files[i].metadataIpfsHash /= c.newMetadataIpfsHash

\* C24: validation comes first.  A create whose content is empty, null,
\* undefined or neither a string nor an object, or whose options are not an
\* object, and an update with no file id or with null content, reject with
\* the validation error whether or not the agent is set up, and have
\* encrypted, uploaded, read and submitted nothing.
C24_Malformed(c) ==
  \/ /\ c.op = "create"
     /\ \/ c.content.t \notin {"string", "object"}
        \/ c.content = Str("")
        \/ c.options /= "object"
  \/ /\ c.op = "update"
     /\ (c.fileId = NoId \/ c.content.t = "null")

C24_ValidationFirst ==
  [][\A s \in DOMAIN calls :
       LET d == calls'[s] IN
       (issued' = issued + 1 /\ d.n = issued' /\ C24_Malformed(d)) =>
         /\ d.pc = "rejected"
         /\ d.err \in {E_CONTENT, E_OPTIONS, E_FILE_ID, E_NULL_CONTENT}
         /\ d.op = "create" => d.err \in {E_CONTENT, E_OPTIONS}
         /\ d.op = "update" => d.err \in {E_FILE_ID, E_NULL_CONTENT}
         /\ d.encrypts = 0 /\ d.uploads = 0 /\ d.reads = 0
         /\ d.downloads = 0 /\ d.userOps = 0 /\ d.unpinned = <<>>
         /\ UNCHANGED <<agentVars, worldVars>>]_vars

\* An agent that was never set up refused an empty string for its content,
\* not for its missing storage.
C24_Witness ==
  \E s \in DOMAIN calls :
    LET c == calls[s] IN
    /\ ~safeAccount
    /\ c.op = "create" /\ c.content = Str("")
    /\ c.pc = "rejected" /\ c.err = E_CONTENT

\* C25: decryption with an automatically derived context (what the agent's
\* getFileContent does for an encrypted file when it is given no context)
\* releases the plaintext to the configured or custom account whenever the
\* message kit's condition is one that account satisfies: such a call
\* fails only when the TACo initialization or the network fails.
C25_AutoContextDecrypts ==
  \A t \in DOMAIN tacoCall :
    LET c == tacoCall[t] IN
    (/\ c.op = "decryptWithAutoContext"
     /\ c.messageKit.t = "bytes"
     /\ Satisfies(CtxValid, c.messageKit.cond)) =>
      /\ c.pc = "resolved" => c.out = Str(c.messageKit.v)
      /\ c.pc = "rejected" => c.err.detail \in {K_INIT, E_TACO_OTHER}

\* C26: validateConfig() of the TACo provider is idempotent: it leaves the
\* provider as it was, and of two consecutive calls that find the network
\* in the same condition both return true or both fail with the same error.
C26_SameOutcome ==
  \A i \in 1..(Len(validations) - 1) :
    validations[i].network = validations[i + 1].network =>
      /\ validations[i].ok = validations[i + 1].ok
      /\ validations[i].err = validations[i + 1].err
C27_EnvironmentDefault ==
  /\ \A level \in logCalls : level \in console <=> LOG_LEVELS(level) <= logger.logLevel
  /\ (/\ logger.level = NoLevel
      /\ env.LOG_LEVEL = Unset
      /\ env.FILEVERSE_LOG_LEVEL = Unset) =>
       /\ env.NODE_ENV = "production" =>
            logger.logLevel = LOG_LEVELS("ERROR") /\ console \subseteq {"ERROR"}
       /\ env.NODE_ENV = "development" => logger.logLevel = LOG_LEVELS("DEBUG")
       /\ env.NODE_ENV = "test" => logger.logLevel = LOG_LEVELS("WARN")

\* C28: update and delete issue an unpin only once their editFile user
\* operation has been accepted: a step that issues an unpin belongs to a
\* call that holds the hash of its submitted operation, and an update or
\* delete that rejects has issued no unpin and leaves every blob pinned.
C28_UnpinAfterSubmission ==
  [][\A s \in DOMAIN calls :
       LET c == calls[s]
           d == calls'[s] IN
       /\ (d.n = c.n /\ Len(d.unpinned) > Len(c.unpinned)) =>
            /\ c.op \in {"update", "delete"}
            /\ c.userOps = 1 /\ c.hash = c.n
            /\ c.err = ""
       /\ (d.op \in {"update", "delete"} /\ d.pc = "rejected") =>
            /\ d.unpinned = <<>>
            /\ pinned \subseteq pinned']_vars

\* An update read the file, uploaded both new blobs, and its editFile was
\* refused: it rejected, and the previous blobs are pinned.
C28_Witness ==
  \E s \in DOMAIN calls :
    LET c == calls[s] IN
    /\ c.op = "update" /\ c.pc = "rejected"
    /\ c.uploads = 2 /\ c.userOps = 1
    /\ c.unpinned = <<>>
    /\ strippedReference(c.metadataIpfsHash) \in pinned
    /\ strippedReference(c.contentIpfsHash) \in pinned

\* C29: update and delete unpin a previous blob only when their editFile
\* has taken effect on chain: at the step that unpins a blob, the record of
\* the file no longer refers to it.
C29_UnpinAfterEffect ==
  [][\A s \in DOMAIN calls :
       LET c == calls[s]
           d == calls'[s] IN
       (/\ c.op \in {"update", "delete"}
        /\ d.n = c.n
        /\ Len(d.unpinned) > Len(c.unpinned)
        /\ Exists(c.fileId)) =>
         \A blob \in pinned \ pinned' :
           /\ strippedReference(files[c.fileId + 1].metadataIpfsHash) /= blob
           /\ strippedReference(files[c.fileId + 1].contentIpfsHash) /= blob]_vars

\* C30: with content-addressed storage (the reference of a blob is its
\* bytes' identifier, as in pinned) a record that is not a tombstone
\* refers to pinned blobs; in particular, once an update has returned and
\* its editFile has taken effect, the record it wrote refers to a metadata
\* blob and a content blob that are pinned, also when the new content
\* equals the previous content.
C30_LiveRecordsPinned ==
  \A s \in DOMAIN calls :
    LET c == calls[s] IN
    (/\ c.op = "update" /\ c.pc = "resolved" /\ Exists(c.fileId)
     /\ pending = <<>>
     /\ files[c.fileId + 1].metadataIpfsHash = c.newMetadataIpfsHash
     /\ files[c.fileId + 1].contentIpfsHash = c.newContentIpfsHash) =>
      /\ strippedReference(c.newMetadataIpfsHash) \in pinned
      /\ strippedReference(c.newContentIpfsHash) \in pinned

\* C31: getFileContent never hands out ciphertext as if it were the
\* content: a call that resolved with the encrypted bytes of a message kit
\* as its content has not resolved with decrypted false.
C31_NoCiphertextAsContent ==
  \A s \in DOMAIN calls :
    LET c == calls[s] IN
    (c.op = "getFileContent" /\ c.pc = "resolved" /\ c.content_out.t = "bytes") =>
      c.decrypted

\* C32: the file id a create resolved with is a valid id for the next
\* call: getFile, getFileContent, update and delete called with it do not
\* reject it as an invalid file id.
C32_AssignedIdAccepted ==
  \A s \in DOMAIN calls :
    LET c == calls[s] IN
    (/\ c.op \in {"getFile", "getFileContent", "update", "delete"}
     /\ c.prev.op = "create" /\ c.prev.ok
     /\ c.fileId = c.prev.fileId) =>
      c.err /= E_FILE_ID

\* C33: the steps of a create or update follow one another: the content
\* blob is uploaded first, the metadata blob second, both before any user
\* operation; the addFile or editFile then submitted carries the two
\* references those uploads returned; and every addFile and editFile the
\* agent submits has an empty gate reference and version 0.
C33_StrictlySequential ==
  [][/\ \A s \in DOMAIN calls :
          LET c == calls[s]
              d == calls'[s] IN
          (/\ c.op \in {"create", "update"}
           /\ d.n = c.n
           /\ d.uploads > c.uploads) =>
            /\ c.userOps = 0
            /\ c.uploads = 0 => (c.pc = "uploadContent" /\ c.newMetadataIpfsHash = NoRef)
            /\ c.uploads = 1 => (c.pc = "uploadMetadata" /\ c.newContentIpfsHash /= NoRef)
            /\ c.uploads < 2
     /\ Len(pending') > Len(pending) =>
          LET op == pending'[Len(pending')] IN
          op.fn \in {"addFile", "editFile"} =>
            /\ op.gateIpfsHash = ""
            /\ op.version = 0
            /\ \A s \in DOMAIN calls :
                 LET c == calls[s] IN
                 (c.n = op.hash /\ c.op \in {"create", "update"}) =>
                   /\ c.uploads = 2
                   /\ op.fn = (IF c.op = "create" THEN "addFile" ELSE "editFile")
                   /\ op.contentIpfsHash = Concat(protocol, FileBytes(c.contentToUpload))
                   /\ op.contentIpfsHash = c.newContentIpfsHash
                   /\ op.metadataIpfsHash = c.newMetadataIpfsHash
                   /\ strippedReference(op.contentIpfsHash) \in pinned
                   /\ strippedReference(op.metadataIpfsHash) \in pinned]_vars

\* An update has uploaded its two blobs and its editFile is with the
\* bundler.
C33_Witness ==
  \E s \in DOMAIN calls :
    LET c == calls[s] IN
    /\ c.op = "update"
    /\ c.uploads = 2 /\ c.userOps = 1
    /\ pending /= <<>>
    /\ pending[Len(pending)].hash = c.n
    /\ pending[Len(pending)].fn = "editFile"
    /\ pending[Len(pending)].metadataIpfsHash = c.newMetadataIpfsHash

\* C34: two update/delete calls of one agent on the same file, whichever
\* way they interleave, do no damage but orphaned blobs: once both have
\* resolved and the bundler holds no operation any more, the file's record
\* is a tombstone or refers to a metadata blob and a content blob that are
\* pinned.
C34_Tombstone(file) ==
  /\ file.metadataIpfsHash = DeletedRef(protocol)
  /\ file.contentIpfsHash = DeletedRef(protocol)
C34_ConcurrentEditsSound ==
  \A s1, s2 \in DOMAIN calls :
    LET c1 == calls[s1]
        c2 == calls[s2] IN
    (/\ s1 /= s2
     /\ c1.op \in {"update", "delete"} /\ c2.op \in {"update", "delete"}
     /\ c1.pc = "resolved" /\ c2.pc = "resolved"
     /\ c1.fileId = c2.fileId /\ Exists(c1.fileId)
     /\ c1.newContentIpfsHash /= c2.newContentIpfsHash
     /\ c1.newMetadataIpfsHash /= c2.newMetadataIpfsHash
     /\ pending = <<>>) =>
      LET file == files[c1.fileId + 1] IN
      \/ C34_Tombstone(file)
      \/ /\ strippedReference(file.metadataIpfsHash) \in pinned
         /\ strippedReference(file.contentIpfsHash) \in pinned

\* C35: a tombstone is final: once the record of a file holds the deleted
\* sentinel as its metadata and content reference, no step changes either
\* reference.
C35_Deleted(file) ==
  /\ file.metadataIpfsHash = DeletedRef(protocol)
  /\ file.contentIpfsHash = DeletedRef(protocol)
C35_TombstoneStays ==
  [][\A i \in 1..Len(files) :
       C35_Deleted(files[i]) => (i <= Len(files') /\ C35_Deleted(files'[i]))]_vars

\* C36: TacoEncryption.initializeTaco keeps its promise: while an
\* initialization is in flight exactly one call runs
\* _initializeTacoService and every other call awaits its promise; when it
\* fails, the runner and every awaiting call reject with the same error
\* and the kept promise is cleared; a call that finds no kept promise
\* starts one attempt.
C36_Runners == {t \in DOMAIN tacoCall : tacoCall[t].pc = "createTacoProvider"}
C36_Awaiting == {t \in DOMAIN tacoCall : tacoCall[t].pc = "awaitInitialization"}
C36_MemoizedInitialization ==
  [][/\ Cardinality(C36_Runners) <= 1
     /\ (initializationPromise = "pending") <=> (C36_Runners /= {})
     /\ C36_Awaiting /= {} => C36_Runners /= {}
     /\ \A t \in C36_Runners :
          tacoCall'[t].pc = "rejected" =>
            /\ initializationPromise' = "null"
            /\ \A u \in C36_Awaiting :
                 tacoCall'[u].pc = "rejected" /\ tacoCall'[u].err = tacoCall'[t].err
     /\ (initializationPromise = "null" /\ initializationPromise' = "pending") =>
          Cardinality({t \in DOMAIN tacoCall : tacoCall'[t].pc = "createTacoProvider"}) = 1]_vars

\* One call runs _initializeTacoService and another awaits its promise,
\* after an earlier attempt failed and cleared the kept promise.
C36_Witness ==
  /\ initializationPromise = "pending"
  /\ Cardinality(C36_Runners) = 1
  /\ C36_Awaiting /= {}
  /\ \E o \in tacoOutcomes : o.op = "initializeTaco"

\* ------------------------------------------------------------------
\* Sequential setupStorage calls for one namespace and chain: the calls of
\* one slot, each begun after the one before it settled, whatever the agent's
\* portal, with the bundler executing or reverting what was submitted.
NextSetup ==
  \/ \E s \in Slots : setupStorage(s)
  \/ \E s \in Slots : setupStorageAgain(s)
  \/ \E s \in Slots : SetupSafe(s)
  \/ \E s \in Slots : UploadPortalMetadata(s)
  \/ \E s \in Slots : MintPortal(s)
  \/ \E s \in Slots : WaitForMintReceipt(s)
  \/ Execute
  \/ Revert

SpecSetup == Init /\ [][NextSetup]_vars

\* C37: over any sequence of sequential setupStorage calls for one namespace
\* and chain the registry mints at most one portal for it.
C37_AtMostOnePortal == Cardinality(registry) <= 1

\* ------------------------------------------------------------------
\* Agents over any storage provider the constructor lets through: objects
\* lacking up to MaxMissing of the required methods.  Nothing is a provider
\* the constructor rejects, there is no agent then.
MaxMissing == 1

ProviderObjects ==
  {Provider(FALSE, {})} \cup
  {Provider(TRUE, methods) : methods \in
     {m \in SUBSET requiredMethods : Cardinality(requiredMethods \ m) <= MaxMissing}}

InitStorageProvider ==
  /\ hasProvider \in BOOLEAN
  /\ providerValidated = FALSE
  /\ safeAccount = FALSE
  /\ portal = FALSE
  /\ creds \in BOOLEAN
  /\ \E earlier \in EarlierPortals :
       /\ pinned = IF creds THEN earlier.pinned ELSE {}
       /\ files = IF creds THEN earlier.files ELSE <<>>
  /\ pending = <<>>
  /\ receipts = {}
  /\ mints = 0
  /\ calls = [s \in Slots |-> NoCall]
  /\ issued = 0
  /\ tacoModules = FALSE
  /\ initialized = FALSE
  /\ tacoService = "null"
  /\ initializationPromise = "null"
  /\ tacoCall = [t \in Slots |-> NoTacoCall]
  /\ tacoOutcomes = {}
  /\ tacoProvider = TacoProvider(TacoConfig)
  /\ network = NetworkReady
  /\ validations = <<>>
  /\ env = NoEnv
  /\ logger = LoggingService(NoLevel, NoEnv)
  /\ logCalls = {}
  /\ console = {}
  /\ registry = IF creds THEN {EarlierPortalAddress} ELSE {}
  /\ storedPortal = IF creds THEN EarlierPortalAddress ELSE NoAddress
  /\ storageProvider \in {provider \in ProviderObjects : validateAgentConfig(provider)}
  /\ userConfig = NoUserConfig
  /\ processed = NotProcessed

SpecStorageProvider == InitStorageProvider /\ [][Next]_vars

\* C38: an agent uploads, submits a user operation or unpins only with a
\* storage provider that validateStorageProvider accepts, one with all six
\* methods.
C38_ValidatedBeforeSideEffects ==
  [][(pinned' /= pinned \/ Len(pending') > Len(pending))
       => validateStorageProvider(storageProvider)]_vars

\* ------------------------------------------------------------------
\* config/taco-config.js.  TACO_DOMAINS, with the first suggested RPC URL
\* of each domain.
TACO_DOMAINS ==
  [domain \in {"DEVNET", "TESTNET", "MAINNET"} |->
     CASE domain = "DEVNET" ->
            [chainId |-> CHAIN_AMOY, rituals |-> <<RitualId>>, alias |-> "lynx",
             rpcUrl |-> "https://rpc-amoy.polygon.technology"]
       [] domain = "TESTNET" ->
            [chainId |-> CHAIN_AMOY, rituals |-> <<TestnetRitualId>>, alias |-> "tapir",
             rpcUrl |-> "https://rpc-amoy.polygon.technology"]
       [] domain = "MAINNET" ->
            [chainId |-> CHAIN_POLYGON, rituals |-> <<>>, alias |-> "mainnet",
             rpcUrl |-> "https://polygon-rpc.com"]]

getSupportedDomains == DOMAIN TACO_DOMAINS

isValidDomain(domain) == domain /= "" /\ domain \in DOMAIN TACO_DOMAINS

isProductionDomain(domain) == domain = "MAINNET"

\* null is 0 here, as falsy as null where the result is tested.
getDefaultRitualId(domain) ==
  IF ~isValidDomain(domain) THEN 0
  ELSE IF Len(TACO_DOMAINS[domain].rituals) > 0 THEN TACO_DOMAINS[domain].rituals[1]
  ELSE 0

getDefaultRpcUrl(domain) ==
  IF ~isValidDomain(domain) THEN "" ELSE TACO_DOMAINS[domain].rpcUrl

isValidRitualId(domain, ritualId) ==
  IF ~isValidDomain(domain) THEN FALSE
  ELSE IF domain = "MAINNET" THEN ritualId > 0
  ELSE \E i \in 1..Len(TACO_DOMAINS[domain].rituals) :
         TACO_DOMAINS[domain].rituals[i] = ritualId

\* TacoConfig.validate(config): the errors it collects.
validate(config) ==
  LET domainErrors ==
        IF config.domain = "" THEN <<"Domain is required">>
        ELSE IF ~isValidDomain(config.domain) THEN <<"Invalid domain">>
        ELSE <<>>
      ritualId ==
        IF config.ritualId /= 0 THEN config.ritualId
        ELSE getDefaultRitualId(config.domain)
      ritualErrors ==
        IF ~(config.domain /= "" /\ isValidDomain(config.domain)) THEN <<>>
        ELSE IF isProductionDomain(config.domain)
          THEN IF config.ritualId = 0
                 THEN <<"Mainnet requires a custom ritual ID">>
               ELSE IF ~isValidRitualId(config.domain, config.ritualId)
                 THEN <<"Invalid ritual ID for mainnet">>
               ELSE <<>>
        ELSE IF ritualId = 0 THEN <<"No available rituals">>
        ELSE IF ~isValidRitualId(config.domain, ritualId) THEN <<"Invalid ritual ID">>
        ELSE <<>>
      errors == domainErrors \o ritualErrors IN
  [isValid |-> errors = <<>>, errors |-> errors]

\* domainEntry[0].alias: domainEntry is a [key, domainConfig] pair, its
\* first element the key, a string, and a string has no alias property.
aliasOfKey(key) == ""

\* Step 1 of process, the domain: the upper-cased name when it is a
\* supported domain, else what the alias lookup assigns, else as given.
\* An absent domain is no string and is left alone.
autoCorrectDomain(domain) ==
  LET upperDomain == toUpperCase(domain)
      domainEntries ==
        {key \in DOMAIN TACO_DOMAINS :
           toLowerCase(TACO_DOMAINS[key].alias) = toLowerCase(domain)} IN
  IF domain = "" THEN domain
  ELSE IF upperDomain \in getSupportedDomains THEN upperDomain
  ELSE IF domainEntries /= {} THEN aliasOfKey(CHOOSE key \in domainEntries : TRUE)
  ELSE domain

\* Step 1 of process, the ritual: the default of a testnet when none is given.
autoSetRitualId(config) ==
  IF /\ config.domain /= ""
     /\ isValidDomain(config.domain)
     /\ ~isProductionDomain(config.domain)
     /\ config.ritualId = 0
     /\ getDefaultRitualId(config.domain) /= 0
    THEN [config EXCEPT !.ritualId = getDefaultRitualId(config.domain)]
  ELSE config

\* TacoConfig.process(userConfig): the configuration it returns, or the
\* errors of the Error it throws.
process(config0) ==
  LET config == autoSetRitualId([config0 EXCEPT !.domain = autoCorrectDomain(config0.domain)])
      validation == validate(config) IN
  IF ~validation.isValid
    THEN [NotProcessed EXCEPT !.state = "thrown", !.errors = validation.errors]
  ELSE [state |-> "returned",
        domain |-> config.domain,
        ritualId |-> IF config.ritualId /= 0 THEN config.ritualId
                     ELSE getDefaultRitualId(config.domain),
        chainId |-> TACO_DOMAINS[config.domain].chainId,
        rpcUrl |-> IF config.rpcUrl /= "" THEN config.rpcUrl
                   ELSE getDefaultRpcUrl(config.domain),
        errors |-> <<>>]

\* The configurations callers write: the domains by name in some letter
\* cases, by alias, an unknown one, none; rituals of the domains, others,
\* none; with and without an RPC URL.
DomainNames == {"DEVNET", "devnet", "TESTNET", "testnet", "Testnet", "MAINNET"}
DomainAliases == {"lynx", "Lynx", "tapir", "mainnet"}
UserDomains == DomainNames \cup DomainAliases \cup {"", "goerli"}
UserRitualIds == {0 - 1, 0, TestnetRitualId, RitualId}
UserRpcUrls == {"", "https://rpc.example"}

InitTacoConfig ==
  /\ hasProvider = FALSE
  /\ providerValidated = FALSE
  /\ safeAccount = FALSE
  /\ portal = FALSE
  /\ creds = FALSE
  /\ pinned = {}
  /\ files = <<>>
  /\ pending = <<>>
  /\ receipts = {}
  /\ mints = 0
  /\ calls = [s \in Slots |-> NoCall]
  /\ issued = 0
  /\ tacoModules = FALSE
  /\ initialized = FALSE
  /\ tacoService = "null"
  /\ initializationPromise = "null"
  /\ tacoCall = [t \in Slots |-> NoTacoCall]
  /\ tacoOutcomes = {}
  /\ tacoProvider = TacoProvider(TacoConfig)
  /\ network = NetworkReady
  /\ validations = <<>>
  /\ env = NoEnv
  /\ logger = LoggingService(NoLevel, NoEnv)
  /\ logCalls = {}
  /\ console = {}
  /\ registry = {}
  /\ storedPortal = NoAddress
  /\ storageProvider = PinataStorageProvider
  /\ userConfig \in [domain : UserDomains, ritualId : UserRitualIds, rpcUrl : UserRpcUrls]
  /\ processed = NotProcessed

TacoConfig_process ==
  /\ processed.state = "none"
  /\ processed' = process(userConfig)
  /\ UNCHANGED <<mainVars, tacoVars, providerVars, loggingVars, registryVars,
                 storageProvider, userConfig>>

NextTacoConfig == TacoConfig_process

SpecTacoConfig == InitTacoConfig /\ [][NextTacoConfig]_vars

\* C39: process does not reject a configuration for its domain when the
\* domain is a supported one in any letter case or an alias of one, and a
\* configuration it returns has a supported domain, a ritual valid for it and
\* the chain id of that domain.
C39_DomainAutoCorrected ==
  /\ (processed.state = "thrown" /\ userConfig.domain \in DomainNames \cup DomainAliases)
       => \A i \in 1..Len(processed.errors) :
            processed.errors[i] \notin {"Domain is required", "Invalid domain"}
  /\ processed.state = "returned" =>
       /\ isValidDomain(processed.domain)
       /\ isValidRitualId(processed.domain, processed.ritualId)
       /\ processed.chainId = TACO_DOMAINS[processed.domain].chainId

====
